---- MODULE Spec2Model ----
(***************************************************************************)
(* Bulk SEO job engine of latent-seo: the worker's processJob (discovery,  *)
(* exclusion, generation, mutation, logging, quota) and the undo service   *)
(* (revertOptimization, revertJob), over one remote catalog, the job       *)
(* table, the optimization log and the usage record; the job-status route, *)
(* the shop/redact webhook, and the retry wrapper of the remote API        *)
(* client.                                                                 *)
(***************************************************************************)
EXTENDS Integers, Sequences, FiniteSets, TLC

VARIABLES
    remote,     \* the tenant's remote catalog: seo fields per product, alt per image
    session,    \* Session table: does a shop have a session with an access token
    shops,      \* Shop table: plan and exclusion rules per shop
    usage,      \* UsageRecord of the current billing period, per shop
    jobs,       \* Job table, in creation order (id = position)
    logs,       \* OptimizationLog table: the set of its rows
    ex,         \* one record per queue job: the processJob execution running it
    rv,         \* one record per caller of the undo service
    budget,     \* what may still happen in the run: jobs to enqueue, undo calls
                \* to make, faults to inject, enqueues with a productIds list,
                \* deleted products to meet
    applied,    \* per shop: productsOptimized at the start, and the number of
                \* items whose remote mutation by a job has succeeded since
    before,     \* the remote catalog as it was before any job ran
    req,        \* one request through shopifyGraphQLWithRetry: the answers the
                \* API will give, and how far the wrapper has come
    gen         \* one content generation: the raw outputs the language model
                \* will give, the generators called, and the value chosen

vars == <<remote, session, shops, usage, jobs, logs, ex, rv, budget, applied, before,
          req, gen>>

----------------------------------------------------------------------------
(* Bounds of the model *)

MaxEnqueue == 2     \* queue jobs that are ever enqueued
Slots == 2          \* executions the worker pool of the model runs at a time
MaxCallers == 2     \* concurrent callers of the undo service
MaxCalls == 2       \* undo calls that are ever made
MaxFaults == 2      \* injected faults: a failing store call of canOptimize or of
                    \* the job's last updates, a 401/403 answer to a mutation
MaxMissing == 1     \* products an undo call finds deleted from the catalog
MaxOver == 3        \* characters a raw output may have beyond its generator's maximum
SpaceWindow == 2    \* positions tried for the space on each side of a threshold
MaxResponses == 4   \* answers of the API one request through the retry wrapper meets

Execs == 1..MaxEnqueue
Callers == 1..MaxCallers

\* A run is either a run of queue jobs alone, or one job and the undo calls
\* that follow or overlap it, or one job (enqueued with or without a
\* productIds list) that meets faults, or one job and one undo call that may
\* find its product deleted.
Budgets ==
    { [jobs |-> MaxEnqueue, calls |-> 0, faults |-> 0, subsets |-> 0, missing |-> 0],
      [jobs |-> 1, calls |-> MaxCalls, faults |-> 0, subsets |-> 0, missing |-> 0],
      [jobs |-> 1, calls |-> 0, faults |-> MaxFaults, subsets |-> 1, missing |-> 0],
      [jobs |-> 1, calls |-> 1, faults |-> 0, subsets |-> 0, missing |-> MaxMissing] }

(* Program constants *)

FreeLimit == 25
ProLimit == 500
Unlimited == -1         \* getProductLimit's null
CollectionsFirst == 10
ImagesFirst == 10
Concurrency == 5
Attempts == 3           \* defaultJobOptions.attempts of the queue
MaxRetries == 3         \* maxRetries of shopifyGraphQLWithRetry

----------------------------------------------------------------------------
(* Values: JavaScript strings, null, and an absent key of an input object *)

Null == "<null>"
Absent == "<absent>"

\* s.trim(): the one whitespace-only string of the model trims to ""
Trim(s) == IF s = " " THEN "" ELSE s

\* !s for a string-or-null
Falsy(s) == s = Null \/ s = "" \/ s = Absent

\* s || ""
OrEmpty(s) == IF Falsy(s) THEN "" ELSE s

\* s.toLowerCase() on the tags and handles of the catalog and the rules
ToLowerCase(s) ==
    CASE s = "Draft" -> "draft"
      [] s = "DRAFT" -> "draft"
      [] s = "Hidden" -> "hidden"
      [] s = "Summer" -> "summer"
      [] OTHER -> s

RECURSIVE SeqToSet(_)
SeqToSet(s) == IF s = <<>> THEN {} ELSE {Head(s)} \cup SeqToSet(Tail(s))

Min(a, b) == IF a < b THEN a ELSE b

----------------------------------------------------------------------------
(* The tenant and its catalog *)

Shops == {"a.myshopify.com", "b.myshopify.com"}
TheShop == "a.myshopify.com"
JobTypes == {"META_DESCRIPTION", "ALT_TEXT"}

Products == {"p1", "p2", "p3"}
Images == {"i1", "i2"}

\* the pages the catalog API serves, in cursor order
Pages == << <<"p1", "p3">>, <<"p2">> >>
NumPages == Len(Pages)

\* endCursor of page k
EndCursor(k) == IF k = 1 THEN "c1" ELSE IF k = 2 THEN "c2" ELSE "c3"
\* faulty variant of PageOf: the cursor is not passed on, every request is
\* answered with the first page
PageOfFirst(cursor) == 1

\* the page a request with this cursor is answered with
PageOf(cursor) ==
    CASE cursor = Null -> 1
      [] cursor = "c1" -> 2
      [] cursor = "c2" -> 3
      [] OTHER -> 4

Tags(p) ==
    CASE p = "p1" -> <<"Draft">>
      [] p = "p2" -> <<"new">>
      [] OTHER -> <<>>

\* all collection memberships of a product, in the order the API lists them
Collections(p) ==
    CASE p = "p1" -> <<"sale">>
      [] p = "p2" -> <<"c01", "c02", "c03", "c04", "c05", "c06", "c07", "c08",
                       "c09", "c10", "Hidden">>
      [] OTHER -> <<"Summer">>

FeaturedImage(p) ==
    CASE p = "p1" -> "i1"
      [] OTHER -> Null

ProductImages(p) ==
    CASE p = "p1" -> <<"i1", "i2">>
      [] OTHER -> <<>>

----------------------------------------------------------------------------
(* Pure pieces of the worker *)

\* seoWorker.ts:472: !value || value.trim() === ""
NeedsField(v) == Falsy(v) \/ Trim(v) = ""

\* what one catalog request returns for a product: collections(first: 10),
\* images(first: 10), the current seo fields
First(n, s) == SubSeq(s, 1, Min(n, Len(s)))

\* the exclusion test of processMetaDescriptions / fetchImagesMissingAltText
ExcludedByTag(tags, rules) ==
    /\ Len(rules.excludedTags) > 0
    /\ \E k \in 1..Len(rules.excludedTags) :
          ToLowerCase(rules.excludedTags[k])
             \in {ToLowerCase(t) : t \in SeqToSet(tags)}

ExcludedByCollection(handles, rules) ==
    /\ Len(rules.excludedCollections) > 0
    /\ \E k \in 1..Len(rules.excludedCollections) :
          ToLowerCase(rules.excludedCollections[k])
             \in {ToLowerCase(h) : h \in SeqToSet(handles)}

IsExcluded(tags, handles, rules) ==
    ExcludedByTag(tags, rules) \/ ExcludedByCollection(handles, rules)

\* the products of one page that fetchProductsNeedingSeo keeps
RECURSIVE SeoItemsOf(_, _)
SeoItemsOf(page, rem) ==
    IF page = <<>> THEN <<>>
    ELSE LET p == Head(page)
             needsTitle == NeedsField(rem.seo[p].title)
             needsDescription == NeedsField(rem.seo[p].description)
             rest == SeoItemsOf(Tail(page), rem)
         IN IF needsTitle \/ needsDescription
            THEN << [id |-> p,
                     imageId |-> Null,
                     tags |-> Tags(p),
                     collections |-> First(CollectionsFirst, Collections(p)),
                     seoTitle |-> rem.seo[p].title,
                     seoDescription |-> rem.seo[p].description,
                     currentAltText |-> Null,
                     needsTitle |-> needsTitle,
                     needsDescription |-> needsDescription] >> \o rest
            ELSE rest

AltItem(p, img, rem) ==
    [id |-> p, imageId |-> img, tags |-> Tags(p),
     collections |-> First(CollectionsFirst, Collections(p)),
     seoTitle |-> Null, seoDescription |-> Null,
     currentAltText |-> rem.alt[img],
     needsTitle |-> FALSE, needsDescription |-> FALSE]

\* the images of one product listed under images(first: 10) that are missing
\* alt text, the featured image left out
RECURSIVE OtherImagesOf(_, _, _)
OtherImagesOf(p, imgs, rem) ==
    IF imgs = <<>> THEN <<>>
    ELSE LET img == Head(imgs)
             rest == OtherImagesOf(p, Tail(imgs), rem)
         IN IF FeaturedImage(p) # Null /\ img = FeaturedImage(p) THEN rest
            ELSE IF NeedsField(rem.alt[img])
                 THEN <<AltItem(p, img, rem)>> \o rest
                 ELSE rest

\* the images of one page that fetchImagesMissingAltText keeps
RECURSIVE AltItemsOf(_, _, _)
AltItemsOf(page, rem, rules) ==
    IF page = <<>> THEN <<>>
    ELSE LET p == Head(page)
             rest == AltItemsOf(Tail(page), rem, rules)
             featured ==
                 IF FeaturedImage(p) # Null /\ NeedsField(rem.alt[FeaturedImage(p)])
                 THEN <<AltItem(p, FeaturedImage(p), rem)>> ELSE <<>>
         IN IF IsExcluded(Tags(p), First(CollectionsFirst, Collections(p)), rules)
            THEN rest
            ELSE featured
                 \o OtherImagesOf(p, First(ImagesFirst, ProductImages(p)), rem)
                 \o rest

\* products.filter(...) of processMetaDescriptions
RECURSIVE FilterExcluded(_, _)
FilterExcluded(items, rules) ==
    IF items = <<>> THEN <<>>
    ELSE IF IsExcluded(Head(items).tags, Head(items).collections, rules)
         THEN FilterExcluded(Tail(items), rules)
         ELSE <<Head(items)>> \o FilterExcluded(Tail(items), rules)

\* faulty variant of CarryForward: the sibling is left out of the write
CarryNothing(existing) == Absent

\* the sibling value carried into the write: the fetched one unless blank
CarryForward(existing) ==
    IF ~Falsy(existing) /\ Trim(existing) # "" THEN existing ELSE Absent

\* fullSeoUpdate of processMetaDescriptions (seoWorker.ts:310-324)
FullSeoUpdate(item, newTitle, newDescription) ==
    [title |-> IF ~Falsy(newTitle) THEN newTitle
               ELSE CarryForward(item.seoTitle),
     description |-> IF ~Falsy(newDescription) THEN newDescription
                     ELSE CarryForward(item.seoDescription)]

\* the remote productUpdate: the seo group is replaced as a whole, a field left
\* out of the input is cleared, an empty string clears the field
StoredValue(v) == IF Falsy(v) THEN Null ELSE v

ApplySeo(input) ==
    [title |-> StoredValue(input.title),
     description |-> StoredValue(input.description)]

----------------------------------------------------------------------------
(* Billing *)

\* getProductLimit: "unlimited" gives null
GetProductLimit(plan) ==
    CASE plan = "FREE" -> FreeLimit
      [] plan = "PRO" -> ProLimit
      [] OTHER -> Unlimited

QuotaMessage(limit) ==
    IF limit = FreeLimit
    THEN "You've reached your monthly limit of 25 products. Upgrade to continue optimizing."
    ELSE "You've reached your monthly limit of 500 products. Upgrade to continue optimizing."

\* canOptimize with a reachable store
CanOptimize(shop) ==
    LET limit == GetProductLimit(shops[shop].plan)
        productsOptimized == usage[shop].productsOptimized
    IN IF limit = Unlimited THEN [allowed |-> TRUE, reason |-> Null]
       ELSE IF productsOptimized >= limit
            THEN [allowed |-> FALSE, reason |-> QuotaMessage(limit)]
            ELSE [allowed |-> TRUE, reason |-> Null]

\* what the store reads of one canOptimize call do
StoreReads == {"ok", "planFails", "usageFails"}

\* the answer of canOptimize's catch block
FailOpen == [allowed |-> TRUE, reason |-> Null, usage |-> 0, limit |-> Unlimited]

\* faulty variant of CanOptimizeReading: a failing read refuses the job
CanOptimizeFailClosed(shop, read) ==
    IF read # "ok"
    THEN [allowed |-> FALSE, reason |-> "Plan limit reached", usage |-> 0,
          limit |-> Unlimited]
    ELSE [allowed |-> CanOptimize(shop).allowed, reason |-> CanOptimize(shop).reason,
          usage |-> usage[shop].productsOptimized,
          limit |-> GetProductLimit(shops[shop].plan)]

\* canOptimize(shopDomain): the plan lookup (a failure lands in the catch
\* block), the early return of the unlimited plan, then getCurrentUsage, which
\* catches a failing usage lookup itself and reports no usage
CanOptimizeReading(shop, read) ==
    IF read = "planFails" THEN FailOpen
    ELSE LET limit == GetProductLimit(shops[shop].plan)
             productsOptimized == IF read = "usageFails" THEN 0
                                  ELSE usage[shop].productsOptimized
         IN IF limit = Unlimited
            THEN [allowed |-> TRUE, reason |-> Null, usage |-> 0, limit |-> Unlimited]
            ELSE IF productsOptimized >= limit
                 THEN [allowed |-> FALSE, reason |-> QuotaMessage(limit),
                       usage |-> productsOptimized, limit |-> limit]
                 ELSE [allowed |-> TRUE, reason |-> Null,
                       usage |-> productsOptimized, limit |-> limit]

\* faulty variant of IncrementUsage: the counter is overwritten with count
OverwriteUsage(u, shop, field, count) ==
    [u EXCEPT ![shop][field] = count]

\* incrementUsage: the upsert adds count to one counter of the period's record
IncrementUsage(u, shop, field, count) ==
    [u EXCEPT ![shop][field] = @ + count]

----------------------------------------------------------------------------
(* The remote API client (shopify-api.server.ts) *)

\* the Retry-After headers a 429 answer carries in the model
Headers == {Absent, "5", "0"}

\* parseInt(s, 10) on the strings that reach it
ParseInt(s) ==
    CASE s = "5" -> 5
      [] s = "0" -> 0
      [] OTHER -> 2

\* the answers of the API to one fetch: HTTP status, Retry-After header, and
\* for a 200 whether the body has data, errors or neither
Answers ==
    {[status |-> 200, header |-> Absent, body |-> b] : b \in {"data", "errors", "empty"}}
    \cup {[status |-> 429, header |-> h, body |-> "empty"] : h \in Headers}
    \cup {[status |-> st, header |-> Absent, body |-> "empty"] : st \in {401, 403, 500}}

\* an Error object: status 0 stands for an error without a status property
ApiError(message, status, retryAfter) ==
    [message |-> message, status |-> status, retryAfter |-> retryAfter]

NoError == ApiError(Null, 0, 0)

\* shopifyGraphQL on one answer: the data, or the error it throws
ShopifyGraphQL(answer) ==
    IF answer.status = 429
    THEN [ok |-> FALSE,
          error |-> ApiError("Rate limited", 429,
                             ParseInt(IF Falsy(answer.header) THEN "2"
                                      ELSE answer.header))]
    ELSE IF answer.status \in {401, 403}
    THEN [ok |-> FALSE, error |-> ApiError("Authentication failed", answer.status, 0)]
    ELSE IF answer.status \notin 200..299
    THEN [ok |-> FALSE, error |-> ApiError("Shopify API error", answer.status, 0)]
    ELSE IF answer.body = "errors"
    THEN [ok |-> FALSE, error |-> ApiError("GraphQL errors", 0, 0)]
    ELSE IF answer.body # "data"
    THEN [ok |-> FALSE, error |-> ApiError("No data returned from Shopify API", 0, 0)]
    ELSE [ok |-> TRUE, error |-> NoError]

\* faulty variant of IsAuthError: auth errors are retried like any other
NeverAuthError(status) == FALSE

\* the test "Don't retry auth errors" of the wrapper
IsAuthError(status) == status = 401 \/ status = 403

\* the delay after a 429: (retryAfter || 2) * 1000
RateLimitDelay(error) ==
    (IF error.retryAfter = 0 THEN 2 ELSE error.retryAfter) * 1000

\* faulty variant of BackoffDelay: the same delay after every failure
BackoffDelayFlat(attempt) == 1000

\* the delay after another failure: Math.pow(2, attempt) * 1000
BackoffDelay(attempt) == (2 ^ attempt) * 1000

\* no request through the wrapper
IdleRequest ==
    [pc |-> "idle", script |-> <<>>, attempt |-> 0, calls |-> 0, sleeps |-> <<>>,
     lastError |-> NoError]

\* one iteration of the for loop of shopifyGraphQLWithRetry: the call, and the
\* catch block when it throws
RetryAttempt ==
    /\ req.pc = "loop"
    /\ req.attempt < MaxRetries
    /\ LET r == ShopifyGraphQL(req.script[req.calls + 1])
           called == [req EXCEPT !.calls = @ + 1]
       IN req' =
            IF r.ok
            THEN [called EXCEPT !.pc = "returned"]
            ELSE IF IsAuthError(r.error.status)
            THEN [called EXCEPT !.pc = "thrown", !.lastError = r.error]
            ELSE IF r.error.status = 429
            THEN [called EXCEPT !.lastError = r.error, !.attempt = @ + 1,
                                !.sleeps = Append(@, RateLimitDelay(r.error))]
            ELSE [called EXCEPT !.lastError = r.error, !.attempt = @ + 1,
                                !.sleeps = IF req.attempt < MaxRetries - 1
                                           THEN Append(@, BackoffDelay(req.attempt))
                                           ELSE @]
    /\ UNCHANGED <<gen, remote, session, shops, usage, jobs, logs, ex, rv, budget,
                   applied, before>>

\* the loop has run maxRetries times: throw lastError
RetryExhausted ==
    /\ req.pc = "loop"
    /\ req.attempt >= MaxRetries
    /\ req' = [req EXCEPT !.pc = "thrown"]
    /\ UNCHANGED <<gen, remote, session, shops, usage, jobs, logs, ex, rv, budget,
                   applied, before>>

----------------------------------------------------------------------------
(* The content generators (gemini.server.ts): strings are sequences of      *)
(* characters here, and null is NullOut                                      *)

NullOut == <<"<null>">>
ApiFailure == <<"<error>">>     \* generateContent (or the image fetch) fails
Ellipsis == <<".", ".", ".">>
Quotes == {"\"", "'"}

GeneratorKinds == {"title", "description", "vision", "fallback"}

\* the numbers and steps of each generator's post-processing: min 0 stands
\* for no minimum test
Limits(kind) ==
    CASE kind = "description" ->
           [min |-> 50, max |-> 160, cut |-> 157, threshold |-> 100,
            markdown |-> TRUE, wordCut |-> TRUE, ellipsis |-> TRUE]
      [] kind = "title" ->
           [min |-> 20, max |-> 60, cut |-> 57, threshold |-> 40,
            markdown |-> TRUE, wordCut |-> TRUE, ellipsis |-> FALSE]
      [] kind = "vision" ->
           [min |-> 0, max |-> 125, cut |-> 122, threshold |-> 80,
            markdown |-> TRUE, wordCut |-> TRUE, ellipsis |-> TRUE]
      [] OTHER ->
           [min |-> 0, max |-> 125, cut |-> 122, threshold |-> 80,
            markdown |-> FALSE, wordCut |-> FALSE, ellipsis |-> TRUE]

\* s.trim()
RECURSIVE TrimStart(_)
TrimStart(s) == IF s # <<>> /\ Head(s) = " " THEN TrimStart(Tail(s)) ELSE s

RECURSIVE TrimEnd(_)
TrimEnd(s) ==
    IF s # <<>> /\ s[Len(s)] = " " THEN TrimEnd(SubSeq(s, 1, Len(s) - 1)) ELSE s

TrimText(s) == TrimEnd(TrimStart(s))

\* s.replace(/^["']|["']$/g, ""): one quote off the start, one off the end
StripQuotes(s) ==
    LET a == IF s # <<>> /\ Head(s) \in Quotes THEN Tail(s) ELSE s
    IN IF a # <<>> /\ a[Len(a)] \in Quotes THEN SubSeq(a, 1, Len(a) - 1) ELSE a

\* s.replace(/\*\*/g, "").replace(/\*/g, "")
StripMarkdown(s) == SelectSeq(s, LAMBDA c : c # "*")

\* s.lastIndexOf(" "), -1 when there is none
LastIndexOfSpace(s) ==
    LET at == {k \in 1..Len(s) : s[k] = " "}
    IN IF at = {} THEN -1 ELSE (CHOOSE k \in at : \A m \in at : m <= k) - 1

\* s.slice(0, n)
Slice(s, n) == SubSeq(s, 1, IF n < Len(s) THEN n ELSE Len(s))

\* the cut of an output that is too long
Truncate(kind, output) ==
    LET lim == Limits(kind)
        truncated == Slice(output, lim.cut)
        lastSpace == LastIndexOfSpace(truncated)
        kept == IF lim.wordCut /\ lastSpace > lim.threshold
                THEN Slice(truncated, lastSpace) ELSE truncated
    IN IF lim.ellipsis THEN kept \o Ellipsis ELSE kept

\* the text after trim and clean-up, before the length tests
Cleaned(kind, raw) ==
    LET unquoted == StripQuotes(TrimText(raw))
    IN IF Limits(kind).markdown THEN StripMarkdown(unquoted) ELSE unquoted

\* a generator on the raw output of the model: every failure inside it is
\* caught and gives null
Generate(kind, raw) ==
    IF raw = ApiFailure \/ TrimText(raw) = <<>>
    THEN NullOut
    ELSE LET output == Cleaned(kind, raw)
         IN IF Len(output) < Limits(kind).min THEN NullOut
            ELSE IF Len(output) > Limits(kind).max THEN Truncate(kind, output)
            ELSE output

\* a test that lets only null through
NullOnly(o) == o = NullOut

\* !altText for a generator's answer
FalsyOut(o) == o = NullOut \/ o = <<>>

\* no generation
IdleGeneration ==
    [pc |-> "idle", kind |-> "title", raw |-> <<>>, fallbackRaw |-> <<>>,
     calls |-> <<>>, primary |-> NullOut, output |-> NullOut]

\* generateMetaTitle / generateMetaDescription is called for a product
GenerateMeta ==
    /\ gen.pc = "call" /\ gen.kind \in {"title", "description"}
    /\ gen' = [gen EXCEPT !.pc = "done", !.calls = Append(@, gen.kind),
                          !.output = Generate(gen.kind, gen.raw)]
    /\ UNCHANGED <<req, remote, session, shops, usage, jobs, logs, ex, rv, budget,
                   applied, before>>

\* processAltText calls the vision generator first; its answer is the alt
\* text unless it is falsy
GenerateVision ==
    /\ gen.pc = "call" /\ gen.kind = "vision"
    /\ LET altText == Generate("vision", gen.raw)
       IN gen' = [gen EXCEPT !.pc = IF FalsyOut(altText) THEN "fallback" ELSE "done",
                             !.calls = Append(@, "vision"),
                             !.primary = altText, !.output = altText]
    /\ UNCHANGED <<req, remote, session, shops, usage, jobs, logs, ex, rv, budget,
                   applied, before>>

\* if (!altText) altText = await generateAltTextFallback(...)
GenerateFallback ==
    /\ gen.pc = "fallback"
    /\ gen' = [gen EXCEPT !.pc = "done", !.calls = Append(@, "fallback"),
                          !.output = Generate("fallback", gen.fallbackRaw)]
    /\ UNCHANGED <<req, remote, session, shops, usage, jobs, logs, ex, rv, budget,
                   applied, before>>

----------------------------------------------------------------------------
(* The remote field a log entry is about: <<product or image id, field>> *)

RemoteField(rem, target) ==
    CASE target[2] = "meta_title" -> rem.seo[target[1]].title
      [] target[2] = "meta_description" -> rem.seo[target[1]].description
      [] OTHER -> rem.alt[target[1]]

----------------------------------------------------------------------------
(* Initial state *)

NoRules == [excludedTags |-> <<>>, excludedCollections |-> <<>>]

SeoA == [p1 |-> [title |-> Null, description |-> Null],
         p2 |-> [title |-> "T2", description |-> Null],
         p3 |-> [title |-> "T3", description |-> "D3"]]
SeoB == [p1 |-> [title |-> Null, description |-> Null],
         p2 |-> [title |-> "T2", description |-> "D2"],
         p3 |-> [title |-> Null, description |-> " "]]
SeoC == [p1 |-> [title |-> "T1", description |-> "D1"],
         p2 |-> [title |-> "T2", description |-> Null],
         p3 |-> [title |-> "T3", description |-> "D3"]]
AltA == [i1 |-> Null, i2 |-> "A2"]
AltB == [i1 |-> "A1", i2 |-> " "]

\* the configurations a run starts from: plan, usage so far in the period,
\* session, exclusion rules, catalog contents
Scenarios ==
    { [plan |-> "FREE", used |-> 24, session |-> TRUE, rules |-> NoRules,
       seo |-> SeoA, alt |-> AltA],
      [plan |-> "FREE", used |-> 25, session |-> TRUE, rules |-> NoRules,
       seo |-> SeoC, alt |-> AltB],
      [plan |-> "ENTERPRISE", used |-> 0, session |-> TRUE,
       seo |-> SeoB, alt |-> AltA,
       rules |-> [excludedTags |-> <<"draft">>, excludedCollections |-> <<>>]],
      [plan |-> "ENTERPRISE", used |-> 0, session |-> TRUE,
       seo |-> SeoC, alt |-> AltB,
       rules |-> [excludedTags |-> <<"DRAFT">>, excludedCollections |-> <<"hidden">>]],
      [plan |-> "ENTERPRISE", used |-> 0, session |-> FALSE, rules |-> NoRules,
       seo |-> SeoC, alt |-> AltB] }

\* an execution before its job is enqueued. Of its fields, requests,
\* generatedFor, mutated, overAtStart, authFailed (a 401/403 was answered in
\* this delivery) and faulted (a fault was met in some delivery of the job)
\* are bookkeeping for the properties
IdleExec ==
    [state |-> "none",
     data |-> [shopDomain |-> TheShop, jobType |-> "META_DESCRIPTION",
               productIds |-> <<>>],
     attemptsMade |-> 0,
     pc |-> "idle", dbJob |-> 0, rules |-> NoRules,
     cursor |-> Null, hasNextPage |-> TRUE, requests |-> <<>>,
     allItems |-> <<>>, items |-> <<>>, i |-> 0, processedCount |-> 0,
     progress |-> 0, error |-> Null,
     generatedFor |-> {}, mutated |-> {}, overAtStart |-> FALSE,
     authFailed |-> FALSE, faulted |-> FALSE]

\* an id no log entry has, no entry, no result yet
MissingId == <<0, 0, "none">>
NoEntry == [id |-> MissingId]
NoResult == [pending |-> TRUE]

IdleCaller ==
    [pc |-> "idle", mode |-> "single", shopDomain |-> TheShop,
     logId |-> MissingId, jobId |-> 0, todo |-> <<>>, total |-> 0,
     reverted |-> 0, errors |-> <<>>,
     log |-> NoEntry, current |-> [title |-> Null, description |-> Null],
     input |-> [title |-> Absent, description |-> Absent],
     wrote |-> FALSE, marked |-> {}, result |-> NoResult, afterJobs |-> FALSE]

\* the state a run starts from, with the Job records js and the log entries lg
\* in the store
InitWith(js, lg) ==
    \E sc \in Scenarios :
        /\ remote = [seo |-> sc.seo, alt |-> sc.alt]
        /\ session = [s \in Shops |-> IF s = TheShop THEN sc.session ELSE TRUE]
        /\ shops = [s \in Shops |->
                      IF s = TheShop
                      THEN [plan |-> sc.plan,
                            excludedTags |-> sc.rules.excludedTags,
                            excludedCollections |-> sc.rules.excludedCollections]
                      ELSE [plan |-> "FREE", excludedTags |-> <<>>,
                            excludedCollections |-> <<>>]]
        /\ usage = [s \in Shops |->
                      [productsOptimized |-> IF s = TheShop THEN sc.used ELSE 0,
                       metaTitlesGenerated |-> 0,
                       metaDescriptionsGenerated |-> IF s = TheShop THEN sc.used ELSE 0,
                       altTextsGenerated |-> 0]]
        /\ jobs = js
        /\ logs = lg
        /\ ex = [e \in Execs |-> IdleExec]
        /\ rv = [c \in Callers |-> IdleCaller]
        /\ budget \in Budgets
        /\ applied = [s \in Shops |->
                        [base |-> IF s = TheShop THEN sc.used ELSE 0, items |-> 0]]
        /\ before = [seo |-> sc.seo, alt |-> sc.alt]
        /\ req = IdleRequest
        /\ gen = IdleGeneration

Init == InitWith(<<>>, {})

----------------------------------------------------------------------------
(* The queue and processJob (seoWorker.ts) *)

ActiveExecs == {e \in Execs : ex[e].state = "active"}

\* the productIds a route passes: none selected (the key is left out, here
\* the empty list) or the selected products
ProductIdChoices == {<<>>, <<"p2">>}

\* addSeoFixJob: a route enqueues a job for the shop; nothing guards against a
\* second job while one is running
Enqueue(e, jobType, productIds) ==
    /\ ex[e].state = "none"
    /\ \A d \in Execs : d < e => ex[d].state # "none"
    /\ budget.jobs > 0
    /\ productIds # <<>> => budget.subsets > 0
    /\ budget' = [budget EXCEPT !.jobs = @ - 1,
                                !.subsets = IF productIds # <<>> THEN @ - 1 ELSE @]
    /\ ex' = [ex EXCEPT ![e] = [IdleExec EXCEPT
                 !.state = "waiting",
                 !.data = [shopDomain |-> TheShop, jobType |-> jobType,
                           productIds |-> productIds]]]
    /\ UNCHANGED <<gen, req, remote, session, shops, usage, jobs, logs, rv, applied, before>>

\* prisma.job.findFirst({shopDomain, status in [PENDING, PROCESSING]},
\* orderBy createdAt desc): the id of the record, 0 for none
FindActiveJob(shop) ==
    LET ids == {k \in 1..Len(jobs) :
                   /\ jobs[k].shopDomain = shop
                   /\ jobs[k].status \in {"PENDING", "PROCESSING"}}
    IN IF ids = {} THEN 0 ELSE CHOOSE k \in ids : \A m \in ids : m <= k

\* a worker slot takes the job and calls processJob, which begins with the
\* lookup of an active Job record of the shop (step 1); overAtStart records
\* for the properties whether the quota was used up at that moment
Dequeue(e) ==
    /\ ex[e].state = "waiting"
    /\ Cardinality(ActiveExecs) < Min(Slots, Concurrency)
    /\ LET found == FindActiveJob(ex[e].data.shopDomain)
       IN ex' = [ex EXCEPT ![e] = [@ EXCEPT
                    !.state = "active",
                    !.dbJob = found,
                    !.overAtStart = ~CanOptimize(ex[e].data.shopDomain).allowed,
                    !.pc = IF found = 0 THEN "create" ELSE "adopt"]]
    /\ UNCHANGED <<gen, req, remote, session, shops, usage, jobs, logs, rv, budget, applied, before>>

NewJob(shop, jobType) ==
    [shopDomain |-> shop, type |-> jobType, status |-> "PROCESSING",
     totalItems |-> 0, processedItems |-> 0, errorMessage |-> Null,
     completedAt |-> Null]

\* processJob step 1, no active record was found: create one in PROCESSING
CreateJob(e) ==
    /\ ex[e].state = "active" /\ ex[e].pc = "create"
    /\ jobs' = Append(jobs, NewJob(ex[e].data.shopDomain, ex[e].data.jobType))
    /\ ex' = [ex EXCEPT ![e] = [@ EXCEPT !.dbJob = Len(jobs) + 1, !.pc = "prepare"]]
    /\ UNCHANGED <<gen, req, remote, session, shops, usage, logs, rv, budget, applied, before>>

\* processJob step 1, an active record was found: set it to PROCESSING
AdoptJob(e) ==
    /\ ex[e].state = "active" /\ ex[e].pc = "adopt"
    /\ jobs' = [jobs EXCEPT ![ex[e].dbJob].status = "PROCESSING"]
    /\ ex' = [ex EXCEPT ![e] = [@ EXCEPT !.pc = "prepare"]]
    /\ UNCHANGED <<gen, req, remote, session, shops, usage, logs, rv, budget, applied, before>>

\* processJob steps 2-4: session, shop settings, canOptimize (whose store
\* reads may fail)
Prepare(e) ==
    /\ ex[e].state = "active" /\ ex[e].pc = "prepare"
    /\ \E read \in StoreReads :
       LET shop == ex[e].data.shopDomain
           usageCheck == CanOptimizeReading(shop, read)
       IN
       /\ read # "ok" => budget.faults > 0 /\ session[shop]
       /\ read = "usageFails" => GetProductLimit(shops[shop].plan) # Unlimited
       /\ budget' = [budget EXCEPT !.faults = IF read # "ok" THEN @ - 1 ELSE @]
       /\ ex' = [ex EXCEPT ![e] =
            IF ~session[shop]
            THEN [@ EXCEPT !.pc = "catch", !.error = "No valid session found"]
            ELSE IF ~usageCheck.allowed
            THEN [@ EXCEPT !.pc = "catch", !.error = usageCheck.reason,
                           !.rules = [excludedTags |-> shops[shop].excludedTags,
                                      excludedCollections |-> shops[shop].excludedCollections]]
            ELSE [@ EXCEPT
                    !.faulted = @ \/ read # "ok",
                    !.rules = [excludedTags |-> shops[shop].excludedTags,
                               excludedCollections |-> shops[shop].excludedCollections],
                    !.pc = IF ex[e].data.jobType \in {"META_DESCRIPTION", "ALT_TEXT"}
                           THEN "fetch" ELSE "loop"]]
    /\ UNCHANGED <<gen, req, remote, session, shops, usage, jobs, logs, rv, applied, before>>

\* what shopifyGraphQLWithRetry ends with for a discovery request: the data,
\* an error that outlasts the retries, a 401/403 (thrown at once)
FetchOutcomes == {"ok", "error", "auth"}

\* the message of the error shopifyGraphQL throws
RequestError(outcome) ==
    IF outcome = "auth" THEN "Authentication failed" ELSE "Shopify API error"

\* one iteration of the while (hasNextPage) loop of fetchProductsNeedingSeo /
\* fetchImagesMissingAltText; a request that fails for good ends the job
FetchPage(e) ==
    /\ ex[e].state = "active" /\ ex[e].pc = "fetch" /\ ex[e].hasNextPage
    /\ \E outcome \in FetchOutcomes :
         LET k == PageOf(ex[e].cursor)
             found == IF ex[e].data.jobType = "META_DESCRIPTION"
                      THEN SeoItemsOf(Pages[k], remote)
                      ELSE AltItemsOf(Pages[k], remote, ex[e].rules)
             more == k < NumPages
         IN /\ outcome # "ok" => budget.faults > 0
            /\ budget' = [budget EXCEPT
                              !.faults = IF outcome # "ok" THEN @ - 1 ELSE @]
            /\ ex' = [ex EXCEPT ![e] =
                 IF outcome = "ok"
                 THEN [@ EXCEPT !.requests = Append(@, ex[e].cursor),
                                !.allItems = @ \o found,
                                !.hasNextPage = more,
                                !.cursor = EndCursor(k),
                                !.pc = IF more THEN "fetch" ELSE "total"]
                 ELSE [@ EXCEPT !.requests = Append(@, ex[e].cursor),
                                !.pc = "catch", !.faulted = TRUE,
                                !.authFailed = outcome = "auth",
                                !.error = RequestError(outcome)]]
    /\ UNCHANGED <<gen, req, remote, session, shops, usage, jobs, logs, rv, applied, before>>

\* after discovery: the exclusion filter (META_DESCRIPTION; the ALT_TEXT fetch
\* has applied it already) and the totalItems update
SetTotal(e) ==
    /\ ex[e].state = "active" /\ ex[e].pc = "total"
    /\ LET kept == IF ex[e].data.jobType = "META_DESCRIPTION"
                   THEN FilterExcluded(ex[e].allItems, ex[e].rules)
                   ELSE ex[e].allItems
       IN /\ ex' = [ex EXCEPT ![e] = [@ EXCEPT !.items = kept, !.i = 0, !.pc = "loop"]]
          /\ jobs' = [jobs EXCEPT ![ex[e].dbJob].totalItems = Len(kept)]
    /\ UNCHANGED <<gen, req, remote, session, shops, usage, logs, rv, budget, applied, before>>

\* Math.round((a / b) * 100), for b > 0
Percent(a, b) == (200 * a + b) \div (2 * b)

\* the delivery execution e is running, numbered over all queue jobs
RunOf(e) == e + MaxEnqueue * ex[e].attemptsMade

\* prisma.optimizationLog.create. The id stands for the generated cuid; by
\* (the execution that wrote the entry) and target (the remote field the
\* entry is about) are bookkeeping for the properties
LogEntry(shop, jobId, productId, field, oldValue, newValue, e, target) ==
    [id |-> <<RunOf(e), ex[e].i + 1, field>>,
     shopDomain |-> shop, jobId |-> jobId, productId |-> productId,
     field |-> field, oldValue |-> oldValue, newValue |-> newValue,
     isReverted |-> FALSE, revertedAt |-> Null,
     by |-> e, target |-> target]

\* the usage tracking after a successful product update (seoWorker.ts:340-346)
UsageAfterProduct(u, shop, newTitle, newDescription) ==
    LET u1 == IncrementUsage(u, shop, "productsOptimized", 1)
        u2 == IF ~Falsy(newTitle)
              THEN IncrementUsage(u1, shop, "metaTitlesGenerated", 1) ELSE u1
    IN IF ~Falsy(newDescription)
       THEN IncrementUsage(u2, shop, "metaDescriptionsGenerated", 1) ELSE u2

\* the usage tracking after a successful image update (seoWorker.ts:667)
UsageAfterImage(u, shop) == IncrementUsage(u, shop, "altTextsGenerated", 1)

\* the log entries one product gets: one per generated field, written before
\* the update is sent
ProductLogs(e, item, newTitle, newDescription) ==
    LET shop == ex[e].data.shopDomain
    IN (IF ~Falsy(newTitle)
        THEN {LogEntry(shop, ex[e].dbJob, item.id, "meta_title",
                       OrEmpty(item.seoTitle), newTitle, e,
                       <<item.id, "meta_title">>)}
        ELSE {})
       \cup
       (IF ~Falsy(newDescription)
        THEN {LogEntry(shop, ex[e].dbJob, item.id, "meta_description",
                       OrEmpty(item.seoDescription), newDescription, e,
                       <<item.id, "meta_description">>)}
        ELSE {})

\* faulty variant of UpdateProductSeo: an exception of the request is thrown on
UpdateProductSeoRethrow(outcome) ==
    [success |-> outcome = "ok", thrown |-> outcome \in {"throw", "auth"}]

\* updateProductSeo / updateImageAltText: true when the mutation was applied;
\* userErrors and every exception of the request, a 401/403 included, are
\* caught and give false
UpdateProductSeo(outcome) ==
    [success |-> outcome = "ok", thrown |-> FALSE]

\* the loop's state after an item: the next item, or the catch block of
\* processJob when the item threw
AfterItem(x, item, requested, outcome, success, count) ==
    IF requested /\ UpdateProductSeo(outcome).thrown
    THEN [x EXCEPT !.pc = "catch", !.error = RequestError(outcome),
                   !.generatedFor = @ \cup {item.id},
                   !.authFailed = @ \/ outcome = "auth",
                   !.faulted = @ \/ outcome = "auth"]
    ELSE [x EXCEPT !.i = @ + 1,
                   !.processedCount = count,
                   !.progress = Percent(x.i + 1, Len(x.items)),
                   !.generatedFor = @ \cup {item.id},
                   !.mutated = IF success THEN @ \cup {item.id} ELSE @,
                   !.authFailed = @ \/ (requested /\ outcome = "auth"),
                   !.faulted = @ \/ (requested /\ outcome = "auth")]

\* one iteration of the item loop of processMetaDescriptions
ProcessProduct(e, newTitle, newDescription, outcome) ==
    LET item == ex[e].items[ex[e].i + 1]
        shop == ex[e].data.shopDomain
        hasChanges == ~Falsy(newTitle) \/ ~Falsy(newDescription)
        success == hasChanges /\ UpdateProductSeo(outcome).success
        count == ex[e].processedCount + (IF success THEN 1 ELSE 0)
    IN /\ outcome = "auth" => hasChanges
       /\ remote' = IF success
                    THEN [remote EXCEPT !.seo[item.id] =
                            ApplySeo(FullSeoUpdate(item, newTitle, newDescription))]
                    ELSE remote
       /\ logs' = logs \cup ProductLogs(e, item, newTitle, newDescription)
       /\ usage' = IF success
                   THEN UsageAfterProduct(usage, shop, newTitle, newDescription)
                   ELSE usage
       /\ jobs' = IF hasChanges /\ UpdateProductSeo(outcome).thrown THEN jobs
                  ELSE [jobs EXCEPT ![ex[e].dbJob].processedItems = count]
       /\ applied' = IF success THEN [applied EXCEPT ![shop].items = @ + 1] ELSE applied
       /\ ex' = [ex EXCEPT ![e] =
                    AfterItem(ex[e], item, hasChanges, outcome, success, count)]

\* one iteration of the item loop of processAltText; vision is the primary
\* generator's answer ("throw" when it threw), fallback the text-only one's
ProcessImage(e, vision, fallback, outcome) ==
    LET item == ex[e].items[ex[e].i + 1]
        shop == ex[e].data.shopDomain
        primary == IF vision = "throw" THEN Null ELSE vision
        altText == IF Falsy(primary) THEN fallback ELSE primary
        success == ~Falsy(altText) /\ UpdateProductSeo(outcome).success
        count == ex[e].processedCount + (IF success THEN 1 ELSE 0)
    IN /\ outcome = "auth" => ~Falsy(altText)
       /\ remote' = IF success THEN [remote EXCEPT !.alt[item.imageId] = altText]
                    ELSE remote
       /\ logs' = IF success
                  THEN logs \cup {LogEntry(shop, ex[e].dbJob, item.id, "alt_text",
                                           OrEmpty(item.currentAltText), altText, e,
                                           <<item.imageId, "alt_text">>)}
                  ELSE logs
       /\ usage' = IF success THEN UsageAfterImage(usage, shop) ELSE usage
       /\ jobs' = IF ~Falsy(altText) /\ UpdateProductSeo(outcome).thrown THEN jobs
                  ELSE [jobs EXCEPT ![ex[e].dbJob].processedItems = count]
       /\ applied' = IF success THEN [applied EXCEPT ![shop].items = @ + 1] ELSE applied
       /\ ex' = [ex EXCEPT ![e] =
                    AfterItem(ex[e], item, ~Falsy(altText), outcome, success, count)]

\* the answers the content generators can give
TitleAnswers(item) == IF item.needsTitle THEN {Null, "New Title"} ELSE {Null}
DescriptionAnswers(item) ==
    IF item.needsDescription THEN {Null, "New Description"} ELSE {Null}
VisionAnswers == {Null, "throw", "Alt by vision"}
FallbackAnswers == {Null, "Alt by text"}
UpdateOutcomes == {"ok", "userErrors", "throw"}
\* and with the 401/403 answers
MutationOutcomes == UpdateOutcomes \cup {"auth"}

\* the body of the for loop, for the job's type
ProcessItem(e) ==
    /\ ex[e].state = "active" /\ ex[e].pc = "loop"
    /\ ex[e].i < Len(ex[e].items)
    /\ \E outcome \in MutationOutcomes :
         /\ outcome = "auth" => budget.faults > 0
         /\ budget' = [budget EXCEPT !.faults = IF outcome = "auth" THEN @ - 1 ELSE @]
         /\ IF ex[e].data.jobType = "META_DESCRIPTION"
            THEN \E newTitle \in TitleAnswers(ex[e].items[ex[e].i + 1]),
                    newDescription \in DescriptionAnswers(ex[e].items[ex[e].i + 1]) :
                    ProcessProduct(e, newTitle, newDescription, outcome)
            ELSE \E vision \in VisionAnswers, fallback \in FallbackAnswers :
                    ProcessImage(e, vision, fallback, outcome)
    /\ UNCHANGED <<gen, req, session, shops, rv, before>>

\* what a store write does
StoreWrites == {"ok", "fails"}

\* processJob's last update: COMPLETED with the counts of this execution; when
\* the store refuses the update, the exception lands in the catch block
Complete(e) ==
    /\ ex[e].state = "active" /\ ex[e].pc = "loop"
    /\ ex[e].i = Len(ex[e].items)
    /\ \E write \in StoreWrites :
         /\ write = "fails" => budget.faults > 0
         /\ budget' = [budget EXCEPT !.faults = IF write = "fails" THEN @ - 1 ELSE @]
         /\ IF write = "ok"
            THEN /\ jobs' = [jobs EXCEPT ![ex[e].dbJob] = [@ EXCEPT
                               !.status = "COMPLETED", !.completedAt = "set",
                               !.processedItems = ex[e].processedCount,
                               !.totalItems = Len(ex[e].items)]]
                 /\ ex' = [ex EXCEPT ![e] = [@ EXCEPT !.state = "completed",
                                                      !.pc = "done"]]
            ELSE /\ jobs' = jobs
                 /\ ex' = [ex EXCEPT ![e] = [@ EXCEPT !.pc = "catch",
                                                      !.faulted = TRUE,
                                                      !.error = "Store error"]]
    /\ UNCHANGED <<gen, req, remote, session, shops, usage, logs, rv, applied, before>>

\* the catch block: prisma.job.updateMany({shopDomain, status: PROCESSING})
FailProcessing(js, shop, message) ==
    [k \in 1..Len(js) |->
        IF js[k].shopDomain = shop /\ js[k].status = "PROCESSING"
        THEN [js[k] EXCEPT !.status = "FAILED", !.errorMessage = message]
        ELSE js[k]]

\* the queue after processJob has thrown: with attempts left the job is
\* delivered again (after the backoff), else it is failed for good
AfterThrow(x) ==
    IF x.attemptsMade + 1 < Attempts
    THEN [IdleExec EXCEPT !.state = "waiting", !.data = x.data,
                          !.attemptsMade = x.attemptsMade + 1,
                          !.faulted = x.faulted]
    ELSE [x EXCEPT !.state = "failed", !.pc = "done",
                   !.attemptsMade = x.attemptsMade + 1]

\* the catch block of processJob: the updateMany, then the error is thrown on
\* to the queue; when the store refuses the updateMany, its exception is
\* thrown instead and the records stay as they are
Fail(e) ==
    /\ ex[e].state = "active" /\ ex[e].pc = "catch"
    /\ \E write \in StoreWrites :
         /\ write = "fails" => budget.faults > 0
         /\ budget' = [budget EXCEPT !.faults = IF write = "fails" THEN @ - 1 ELSE @]
         /\ jobs' = IF write = "ok"
                    THEN FailProcessing(jobs, ex[e].data.shopDomain, ex[e].error)
                    ELSE jobs
         /\ ex' = [ex EXCEPT ![e] =
                      AfterThrow([ex[e] EXCEPT !.faulted = @ \/ write = "fails"])]
    /\ UNCHANGED <<gen, req, remote, session, shops, usage, logs, rv, applied, before>>

JobNext ==
    \/ \E e \in Execs, jobType \in JobTypes, productIds \in ProductIdChoices :
          Enqueue(e, jobType, productIds)
    \/ \E e \in Execs : Dequeue(e)
    \/ \E e \in Execs : CreateJob(e)
    \/ \E e \in Execs : AdoptJob(e)
    \/ \E e \in Execs : Prepare(e)
    \/ \E e \in Execs : FetchPage(e)
    \/ \E e \in Execs : SetTotal(e)
    \/ \E e \in Execs : ProcessItem(e)
    \/ \E e \in Execs : Complete(e)
    \/ \E e \in Execs : Fail(e)

----------------------------------------------------------------------------
(* The undo service (undo.server.ts) *)

LogIds == {l.id : l \in logs}
EntryOf(id) == CHOOSE l \in logs : l.id = id

FieldRank(field) ==
    CASE field = "meta_title" -> 1
      [] field = "meta_description" -> 2
      [] OTHER -> 3

\* the order the store returns rows in (findMany has no orderBy)
Before(a, b) ==
    \/ a[1] < b[1]
    \/ a[1] = b[1] /\ a[2] < b[2]
    \/ a[1] = b[1] /\ a[2] = b[2] /\ FieldRank(a[3]) < FieldRank(b[3])

RECURSIVE InStoreOrder(_)
InStoreOrder(ids) ==
    IF ids = {} THEN <<>>
    ELSE LET first == CHOOSE a \in ids : \A b \in ids \ {a} : Before(a, b)
         IN <<first>> \o InStoreOrder(ids \ {first})

\* faulty variant of FindRevertible: the lookup without isReverted: false
FindAnyEntry(logId, shop) ==
    \E l \in logs : l.id = logId /\ l.shopDomain = shop

\* faulty variant of FindRevertible: the lookup without shopDomain
FindInAnyShop(logId, shop) ==
    \E l \in logs : l.id = logId /\ ~l.isReverted

\* findFirst({id, shopDomain, isReverted: false}): is there such a row
FindRevertible(logId, shop) ==
    \E l \in logs : l.id = logId /\ l.shopDomain = shop /\ ~l.isReverted

\* findMany({jobId, shopDomain, isReverted: false}): the ids of the rows
EligibleEntries(jobId, shop) ==
    {l.id : l \in {m \in logs : m.jobId = jobId /\ m.shopDomain = shop /\ ~m.isReverted}}

\* completeInput of revertOptimization (undo.server.ts:109-123)
CompleteInput(log, current) ==
    IF log.field = "meta_title"
    THEN [title |-> OrEmpty(log.oldValue),
          description |-> IF ~Falsy(current.description)
                          THEN current.description ELSE Absent]
    ELSE [title |-> IF ~Falsy(current.title) THEN current.title ELSE Absent,
          description |-> OrEmpty(log.oldValue)]

\* getOptimizationHistory(shopDomain, {jobId, showReverted}): the rows the
\* query matches (all pages together); jobId 0 stands for no jobId
GetOptimizationHistory(shop, jobId, showReverted) ==
    {l \in logs : /\ l.shopDomain = shop
                  /\ jobId # 0 => l.jobId = jobId
                  /\ ~showReverted => ~l.isReverted}

\* the summary revertJob returns
Summary(reverted, total, errors) ==
    [success |-> Len(errors) = 0, reverted |-> reverted, total |-> total,
     errors |-> errors]

\* faulty variant of Finish: revertJob gives up at the first entry that fails
FinishAbort(r, error) ==
    IF r.mode = "single"
    THEN [r EXCEPT !.pc = "done",
                   !.result = IF error = Null
                              THEN [success |-> TRUE, error |-> Null]
                              ELSE [success |-> FALSE, error |-> error]]
    ELSE LET rev == IF error = Null THEN r.reverted + 1 ELSE r.reverted
             errs == IF error = Null THEN r.errors
                     ELSE Append(r.errors, [entry |-> r.logId, error |-> error])
         IN IF r.todo = <<>> \/ error # Null
            THEN [r EXCEPT !.pc = "done", !.reverted = rev, !.errors = errs,
                           !.result = Summary(rev, r.total, errs)]
            ELSE [r EXCEPT !.pc = "next", !.reverted = rev, !.errors = errs]

\* revertOptimization ends for caller c: with the error (Null for success).
\* A direct call returns or throws to the caller; inside revertJob the loop
\* counts it and goes on
Finish(r, error) ==
    IF r.mode = "single"
    THEN [r EXCEPT !.pc = "done",
                   !.result = IF error = Null
                              THEN [success |-> TRUE, error |-> Null]
                              ELSE [success |-> FALSE, error |-> error]]
    ELSE LET rev == IF error = Null THEN r.reverted + 1 ELSE r.reverted
             errs == IF error = Null THEN r.errors
                     ELSE Append(r.errors, [entry |-> r.logId, error |-> error])
         IN IF r.todo = <<>>
            THEN [r EXCEPT !.pc = "done", !.reverted = rev, !.errors = errs,
                           !.result = Summary(rev, r.total, errs)]
            ELSE [r EXCEPT !.pc = "next", !.reverted = rev, !.errors = errs]

\* revertOptimization up to the first remote call: the lookup, the session,
\* the field type
BeginRevert(r, logId, shop) ==
    LET r1 == [r EXCEPT !.logId = logId, !.shopDomain = shop, !.wrote = FALSE]
    IN IF ~FindRevertible(logId, shop)
       THEN Finish(r1, "Optimization log not found or already reverted")
       ELSE IF ~session[shop]
       THEN Finish(r1, "No valid session found")
       ELSE IF EntryOf(logId).field \notin {"meta_title", "meta_description"}
       THEN Finish(r1, "Unsupported field type")
       ELSE [r1 EXCEPT !.pc = "fetch", !.log = EntryOf(logId)]

\* every queue job of the run has ended
JobsEnded ==
    /\ budget.jobs = 0
    /\ \A e \in Execs : ex[e].state \notin {"waiting", "active"}

\* a route calls revertOptimization(logId, shopDomain); afterJobs records for
\* the properties whether the jobs had ended when the call was made
CallRevertOptimization(c, logId, shop) ==
    /\ rv[c].pc \in {"idle", "done"}
    /\ budget.calls > 0
    /\ budget' = [budget EXCEPT !.calls = @ - 1]
    /\ rv' = [rv EXCEPT ![c] =
                BeginRevert([IdleCaller EXCEPT !.mode = "single",
                                               !.afterJobs = JobsEnded],
                            logId, shop)]
    /\ UNCHANGED <<gen, req, remote, session, shops, usage, jobs, logs, ex, applied, before>>

\* a route calls revertJob(jobId, shopDomain): the findMany and the check
CallRevertJob(c, jobId, shop) ==
    /\ rv[c].pc \in {"idle", "done"}
    /\ budget.calls > 0
    /\ budget' = [budget EXCEPT !.calls = @ - 1]
    /\ LET todo == InStoreOrder(EligibleEntries(jobId, shop))
           r == [IdleCaller EXCEPT !.mode = "job",
                                   !.jobId = jobId, !.shopDomain = shop]
       IN rv' = [rv EXCEPT ![c] =
                   IF todo = <<>>
                   THEN [r EXCEPT !.pc = "done",
                                  !.result = [success |-> FALSE,
                                              error |-> "No optimizations found to revert"]]
                   ELSE [r EXCEPT !.pc = "next", !.todo = todo, !.total = Len(todo)]]
    /\ UNCHANGED <<gen, req, remote, session, shops, usage, jobs, logs, ex, applied, before>>

\* the for loop of revertJob calls revertOptimization for the next entry
RevertNext(c) ==
    /\ rv[c].pc = "next"
    /\ rv' = [rv EXCEPT ![c] =
                BeginRevert([rv[c] EXCEPT !.todo = Tail(@)],
                            Head(rv[c].todo), rv[c].shopDomain)]
    /\ UNCHANGED <<gen, req, remote, session, shops, usage, jobs, logs, ex, budget, applied, before>>

\* revertOptimization reads the product's current seo fields
RevertFetch(c) ==
    /\ rv[c].pc = "fetch"
    /\ \E outcome \in {"ok", "throw", "missing"} :
         /\ outcome = "missing" => budget.missing > 0
         /\ budget' = [budget EXCEPT !.missing = IF outcome = "missing" THEN @ - 1
                                                 ELSE @]
         /\ rv' = [rv EXCEPT ![c] =
                     IF outcome = "ok"
                     THEN [@ EXCEPT !.pc = "write",
                                    !.current = remote.seo[rv[c].log.productId],
                                    !.input = CompleteInput(rv[c].log,
                                                 remote.seo[rv[c].log.productId])]
                     ELSE Finish(rv[c], IF outcome = "missing" THEN "Product not found"
                                        ELSE "Shopify API error")]
    /\ UNCHANGED <<gen, req, remote, session, shops, usage, jobs, logs, ex, applied, before>>

\* faulty variant of AfterUpdate: userErrors in the answer are not looked at
AfterUpdateUnchecked(r, outcome) ==
    IF outcome = "ok" THEN [r EXCEPT !.pc = "mark", !.wrote = TRUE]
    ELSE IF outcome = "userErrors" THEN [r EXCEPT !.pc = "mark"]
    ELSE Finish(r, "Shopify API error")

\* revertOptimization after its productUpdate: on to the marking when the
\* answer has no userErrors, else the call throws
AfterUpdate(r, outcome) ==
    IF outcome = "ok" THEN [r EXCEPT !.pc = "mark", !.wrote = TRUE]
    ELSE Finish(r, IF outcome = "userErrors" THEN "Failed to revert"
                   ELSE "Shopify API error")

\* revertOptimization sends the compensating productUpdate
RevertWrite(c) ==
    /\ rv[c].pc = "write"
    /\ \E outcome \in UpdateOutcomes :
         /\ remote' = IF outcome = "ok"
                      THEN [remote EXCEPT !.seo[rv[c].log.productId] =
                              ApplySeo(rv[c].input)]
                      ELSE remote
         /\ rv' = [rv EXCEPT ![c] = AfterUpdate(rv[c], outcome)]
    /\ UNCHANGED <<gen, req, session, shops, usage, jobs, logs, ex, budget, applied, before>>

\* optimizationLog.update({id}, {isReverted: true, revertedAt: now})
\* revertedAt is the time of the update: "set" by the first update of a row,
\* "set again" (a later time) by an update of a row that has one already
MarkReverted(lg, logId) ==
    {IF l.id = logId
     THEN [l EXCEPT !.isReverted = TRUE,
                    !.revertedAt = IF l.revertedAt = Null THEN "set" ELSE "set again"]
     ELSE l
       : l \in lg}

\* revertOptimization marks the entry and returns
RevertMark(c) ==
    /\ rv[c].pc = "mark"
    /\ logs' = MarkReverted(logs, rv[c].logId)
    /\ rv' = [rv EXCEPT ![c] = Finish([@ EXCEPT !.marked = @ \cup {rv[c].logId}], Null)]
    /\ UNCHANGED <<gen, req, remote, session, shops, usage, jobs, ex, budget, applied, before>>

UndoNext ==
    \/ \E c \in Callers, logId \in LogIds \cup {MissingId}, shop \in Shops :
          CallRevertOptimization(c, logId, shop)
    \/ \E c \in Callers, jobId \in 1..Len(jobs), shop \in Shops :
          CallRevertJob(c, jobId, shop)
    \/ \E c \in Callers : RevertNext(c)
    \/ \E c \in Callers : RevertFetch(c)
    \/ \E c \in Callers : RevertWrite(c)
    \/ \E c \in Callers : RevertMark(c)

Next == JobNext \/ UndoNext

Spec == Init /\ [][Next]_vars

----------------------------------------------------------------------------
(* The job-status route (api.job-status loader, queue.server.ts getJobStatus) *)

NoJob == [found |-> FALSE]

\* getJobStatus(jobId): the queue's job, which the queue removes when it
\* completes (removeOnComplete: true) and keeps when it fails
QueueJob(e) ==
    IF ex[e].state \in {"none", "completed"}
    THEN NoJob
    ELSE [found |-> TRUE, state |-> ex[e].state,
          failedReason |-> IF ex[e].state = "failed" THEN ex[e].error ELSE Null]

\* job.findFirst({shopDomain, status in all four}, orderBy createdAt desc)
LatestJob(shop) ==
    LET mine == {k \in 1..Len(jobs) : jobs[k].shopDomain = shop}
    IN IF mine = {} THEN NoJob
       ELSE LET k == CHOOSE a \in mine : \A b \in mine : b <= a
            IN [found |-> TRUE, id |-> k, record |-> jobs[k]]

\* the loader's answer to ?jobId= of queue job e, asked by a session of shop
JobStatus(e, shop) ==
    LET queueJob == QueueJob(e)
        dbJob == LatestJob(shop)
    IN IF ~queueJob.found /\ ~dbJob.found
       THEN NoJob
       ELSE [found |-> TRUE,
             state |-> IF queueJob.found THEN queueJob.state
                       ELSE IF dbJob.record.status = "COMPLETED" THEN "completed"
                       ELSE IF dbJob.record.status = "FAILED" THEN "failed"
                       ELSE "active",
             totalItems |-> IF dbJob.found THEN dbJob.record.totalItems ELSE 0,
             processedItems |-> IF dbJob.found THEN dbJob.record.processedItems ELSE 0,
             failedReason |-> IF queueJob.found /\ ~Falsy(queueJob.failedReason)
                              THEN queueJob.failedReason
                              ELSE IF dbJob.found THEN dbJob.record.errorMessage
                              ELSE Null]

----------------------------------------------------------------------------
(* The shop/redact webhook (webhooks.tsx), sent 48 hours after the uninstall *)

\* no processJob execution and no undo call is waiting or under way
Quiescent ==
    /\ \A e \in Execs : ex[e].state \notin {"waiting", "active"}
    /\ \A c \in Callers : rv[c].pc \in {"idle", "done"}

\* a UsageRecord that does not exist reads as zero counters
NoUsage ==
    [productsOptimized |-> 0, metaTitlesGenerated |-> 0,
     metaDescriptionsGenerated |-> 0, altTextsGenerated |-> 0]

\* a Shop row that does not exist reads as the defaults
NoShop == [plan |-> "FREE", excludedTags |-> <<>>, excludedCollections |-> <<>>]

\* handleShopRedact: the five deleteMany calls in their order; the first one
\* that throws (a fault) ends the handler (the catch logs it), so `deleted` of
\* them run. The shop has uninstalled: nothing is enqueued or called for it
\* afterwards
ShopRedact(shop) ==
    /\ Quiescent
    /\ \E deleted \in 0..5 :
         /\ deleted < 5 => budget.faults > 0
         /\ logs' = IF deleted >= 1 THEN {l \in logs : l.shopDomain # shop} ELSE logs
         /\ jobs' = IF deleted >= 2
                    THEN SelectSeq(jobs, LAMBDA j : j.shopDomain # shop) ELSE jobs
         /\ usage' = IF deleted >= 3 THEN [usage EXCEPT ![shop] = NoUsage] ELSE usage
         /\ shops' = IF deleted >= 4 THEN [shops EXCEPT ![shop] = NoShop] ELSE shops
         /\ session' = IF deleted >= 5 THEN [session EXCEPT ![shop] = FALSE]
                       ELSE session
    /\ budget' = [jobs |-> 0, calls |-> 0, faults |-> 0, subsets |-> 0, missing |-> 0]
    /\ UNCHANGED <<gen, req, remote, ex, rv, applied, before>>

SystemNext == Next \/ \E shop \in Shops : ShopRedact(shop)

SystemSpec == Init /\ [][SystemNext]_vars

----------------------------------------------------------------------------
(* One request through shopifyGraphQLWithRetry, for every script of answers *)

Scripts == [1..MaxResponses -> Answers]

\* the tables and the other processes at rest
AtRest ==
    /\ remote = [seo |-> SeoA, alt |-> AltA]
    /\ before = [seo |-> SeoA, alt |-> AltA]
    /\ session = [s \in Shops |-> TRUE]
    /\ shops = [s \in Shops |-> [plan |-> "FREE", excludedTags |-> <<>>,
                                 excludedCollections |-> <<>>]]
    /\ usage = [s \in Shops |-> [productsOptimized |-> 0, metaTitlesGenerated |-> 0,
                                 metaDescriptionsGenerated |-> 0,
                                 altTextsGenerated |-> 0]]
    /\ jobs = <<>>
    /\ logs = {}
    /\ ex = [e \in Execs |-> IdleExec]
    /\ rv = [c \in Callers |-> IdleCaller]
    /\ budget = [jobs |-> 0, calls |-> 0, faults |-> 0, subsets |-> 0, missing |-> 0]
    /\ applied = [s \in Shops |-> [base |-> 0, items |-> 0]]

RetryInit ==
    /\ req \in {[IdleRequest EXCEPT !.pc = "loop", !.script = sc] : sc \in Scripts}
    /\ gen = IdleGeneration
    /\ AtRest

RetryNext == RetryAttempt \/ RetryExhausted

RetrySpec == RetryInit /\ [][RetryNext]_vars

----------------------------------------------------------------------------
(* One generation, for every raw output of the family below *)

\* a raw output: n characters with a space at position sp (none when sp is 0
\* or beyond n), bare or wrapped in quotes or in markdown stars
RawText(n, sp, wrap) ==
    LET body == [k \in 1..n |-> IF k = sp THEN " " ELSE "x"]
    IN CASE wrap = "quotes" -> <<"\"">> \o body \o <<"\"">>
         [] wrap = "stars" -> <<"*", "*">> \o body \o <<"*", "*">>
         [] OTHER -> body

\* the positions of the space that are tried: none, and those around the
\* generator's threshold and around its cut
SpacePositions(kind) ==
    {0} \cup ((Limits(kind).threshold + 1 - SpaceWindow)
                 ..(Limits(kind).threshold + 1 + SpaceWindow))
        \cup ((Limits(kind).cut - SpaceWindow)..(Limits(kind).cut + SpaceWindow))

RawOutputs(kind) ==
    {RawText(n, sp, wrap) : n \in 0..(Limits(kind).max + MaxOver),
                           sp \in SpacePositions(kind),
                           wrap \in {"none", "quotes", "stars"}}
    \cup {ApiFailure}

\* the raw outputs that make the vision generator answer null or ""
NothingFromVision == {ApiFailure, <<>>, <<"\"", "\"">>, <<"*", "*">>}

GenInit ==
    /\ gen \in
          {[IdleGeneration EXCEPT !.pc = "call", !.kind = k, !.raw = r]
             : k \in {"title"}, r \in RawOutputs("title")}
          \cup
          {[IdleGeneration EXCEPT !.pc = "call", !.kind = k, !.raw = r]
             : k \in {"description"}, r \in RawOutputs("description")}
          \cup
          {[IdleGeneration EXCEPT !.pc = "call", !.kind = "vision", !.raw = r,
                                  !.fallbackRaw = f]
             : r \in RawOutputs("vision"), f \in {RawText(30, 10, "none")}}
          \cup
          {[IdleGeneration EXCEPT !.pc = "call", !.kind = "vision", !.raw = r,
                                  !.fallbackRaw = f]
             : r \in NothingFromVision, f \in RawOutputs("fallback")}
    /\ req = IdleRequest
    /\ AtRest

GenNext == GenerateMeta \/ GenerateVision \/ GenerateFallback

GenSpec == GenInit /\ [][GenNext]_vars

----------------------------------------------------------------------------
(* Two tenants: the store also holds records of the other shop *)

OtherShop == "b.myshopify.com"

\* a Job record of the other shop that is PROCESSING, and an entry its job
\* has logged
OtherJob ==
    [NewJob(OtherShop, "ALT_TEXT") EXCEPT !.totalItems = 2, !.processedItems = 1]

OtherEntry ==
    [id |-> <<0, 1, "alt_text">>,
     shopDomain |-> OtherShop, jobId |-> 1, productId |-> "p1",
     field |-> "alt_text", oldValue |-> "", newValue |-> "Alt by vision",
     isReverted |-> FALSE, revertedAt |-> Null,
     by |-> 0, target |-> <<"i1", "alt_text">>]

TenantInit == InitWith(<<OtherJob>>, {OtherEntry})

TenantSpec == TenantInit /\ [][Next]_vars

----------------------------------------------------------------------------
(* Properties *)

NotFound == "Optimization log not found or already reverted"
NoneToRevert == "No optimizations found to revert"
RemoteFailures == {"Shopify API error", "Failed to revert", "Product not found"}
UsageFields == {"productsOptimized", "metaTitlesGenerated",
                "metaDescriptionsGenerated", "altTextsGenerated"}

\* this step is caller c making a new call of the undo service
CallStarts(c) == budget'.calls < budget.calls /\ rv'[c] # rv[c]

\* this step is execution e finishing an item of a META_DESCRIPTION job whose
\* product update succeeded
ProductWritten(e) ==
    /\ ex[e].pc = "loop" /\ ex[e].data.jobType = "META_DESCRIPTION"
    /\ ex'[e].i = ex[e].i + 1
    /\ ex'[e].processedCount = ex[e].processedCount + 1

\* the item execution e is at
ItemOf(e) == ex[e].items[ex[e].i + 1]

\* the fields this step writes a log entry for
NewFields == {l.field : l \in logs' \ logs}

(* C1 *)

\* C1: a revertOptimization call on a non-reverted entry of the tenant with a
\* supported field goes on to the remote API, and when the API cooperates it
\* marks the entry reverted and returns success; a call made when the entry
\* is already reverted throws "not found or already reverted", makes no
\* remote call and leaves the log and the remote catalog unchanged.
C1_RevertTwice ==
    [][\A c \in Callers :
         /\ (CallStarts(c) /\ rv'[c].mode = "single"
                /\ \E l \in logs : l.id = rv'[c].logId /\ l.isReverted)
            => /\ rv'[c].pc = "done"
               /\ rv'[c].result = [success |-> FALSE, error |-> NotFound]
               /\ ~rv'[c].wrote
               /\ remote' = remote /\ logs' = logs
         /\ (CallStarts(c) /\ rv'[c].mode = "single"
                /\ session[rv'[c].shopDomain]
                /\ \E l \in logs : /\ l.id = rv'[c].logId /\ ~l.isReverted
                                    /\ l.shopDomain = rv'[c].shopDomain
                                    /\ l.field \in {"meta_title", "meta_description"})
            => rv'[c].pc = "fetch"
         /\ (rv[c].mode = "single" /\ rv[c].pc = "mark" /\ rv'[c] # rv[c])
            => /\ rv'[c].pc = "done"
               /\ rv'[c].result = [success |-> TRUE, error |-> Null]
               /\ \E l \in logs' : l.id = rv[c].logId /\ l.isReverted
         /\ (rv[c].mode = "single" /\ rv[c].pc \in {"fetch", "write"}
                /\ rv'[c].pc = "done")
            => /\ rv'[c].result.error \in RemoteFailures
               /\ logs' = logs
      ]_vars

\* two calls in a row on one entry: the entry is reverted, and the last call
\* on it has ended with "not found or already reverted"
C1_Witness ==
    \E c \in Callers, l \in logs :
        /\ budget.calls = 0
        /\ l.isReverted /\ l.id = rv[c].logId /\ l.shopDomain = rv[c].shopDomain
        /\ rv[c].mode = "single" /\ rv[c].pc = "done"
        /\ rv[c].result = [success |-> FALSE, error |-> NotFound]

(* C2 *)

\* C2: a revertOptimization call on an entry a job wrote, made after the job
\* has ended and with no other undo call around it, succeeds when the remote
\* API cooperates and leaves the entry's remote field at the value it had
\* before the job ran.
C2_RoundTrip ==
    \A c \in Callers :
        (/\ rv[c].mode = "single" /\ rv[c].pc = "done"
         /\ rv[c].afterJobs
         /\ budget.calls = MaxCalls - 1
         /\ \E l \in logs : l.id = rv[c].logId /\ l.shopDomain = rv[c].shopDomain
         /\ rv[c].result.error \notin RemoteFailures)
        => /\ rv[c].result.success
           /\ RemoteField(remote, EntryOf(rv[c].logId).target)
                = RemoteField(before, EntryOf(rv[c].logId).target)

(* C3 *)

C4_QuotaCountsItems ==
    \A s \in Shops :
        usage[s].productsOptimized = applied[s].base + applied[s].items

(* C5 *)

\* C5: no step lowers a counter of a usage record, and a step of the undo
\* service (any step that is not a step of the queue or of an execution)
\* leaves the usage records as they are.
C5_UsageMonotone ==
    [][/\ \A s \in Shops, f \in UsageFields : usage'[s][f] >= usage[s][f]
       /\ (ex' = ex /\ budget'.jobs = budget.jobs) => usage' = usage
      ]_vars

\* an entry has been reverted and the quota counter is still above its start
C5_Witness ==
    /\ \E l \in logs : l.isReverted /\ l.shopDomain = TheShop
    /\ usage[TheShop].productsOptimized > applied[TheShop].base

(* C6 *)

\* a product the tenant's rules block: one of its tags equals a blocked tag
\* without regard to case, or one of its collections has a blocked handle
Blocked(p, shop) ==
    \/ \E t \in SeqToSet(Tags(p)), b \in SeqToSet(shops[shop].excludedTags) :
          ToLowerCase(t) = ToLowerCase(b)
    \/ \E h \in SeqToSet(Collections(p)),
          b \in SeqToSet(shops[shop].excludedCollections) :
          ToLowerCase(h) = ToLowerCase(b)

\* C6: a blocked product is never given to the generator, never mutated and
\* never appears in a log entry, whatever the job type.
C6_ExclusionComplete ==
    \A e \in Execs, p \in Products :
        Blocked(p, ex[e].data.shopDomain)
        => /\ p \notin ex[e].generatedFor
           /\ p \notin ex[e].mutated
           /\ ~\E l \in logs : l.by = e /\ l.productId = p

(* C7 *)

\* this step is execution e receiving the answer to a discovery request
PageFetched(e) ==
    /\ ex[e].pc = "fetch"
    /\ ex'[e].pc \in {"fetch", "total"}
    /\ Len(ex'[e].requests) = Len(ex[e].requests) + 1

\* the items a discovery step appends
NewItems(e) ==
    SubSeq(ex'[e].allItems, Len(ex[e].allItems) + 1, Len(ex'[e].allItems))

\* the items of page k that qualify for a job of this type: products with a
\* blank SEO title or description; images with blank alt text of the
\* products the page lists that the rules let through
QualifyingOn(k, e) ==
    IF ex[e].data.jobType = "META_DESCRIPTION"
    THEN {<<p, Null>> : p \in {q \in SeqToSet(Pages[k]) :
                                  \/ NeedsField(remote.seo[q].title)
                                  \/ NeedsField(remote.seo[q].description)}}
    ELSE {pi \in SeqToSet(Pages[k]) \X Images :
             /\ \/ pi[2] = FeaturedImage(pi[1])
                \/ pi[2] \in SeqToSet(First(ImagesFirst, ProductImages(pi[1])))
             /\ NeedsField(remote.alt[pi[2]])
             /\ ~IsExcluded(Tags(pi[1]),
                            First(CollectionsFirst, Collections(pi[1])),
                            ex[e].rules)}

\* C7: the n-th discovery request carries no cursor when n = 1 and the
\* endCursor of page n - 1 otherwise; its answer adds each qualifying item
\* of page n once and nothing else; discovery goes on exactly while the page
\* reports more pages, so it ends after the last page.
C7_Pagination ==
    [][\A e \in Execs :
         PageFetched(e)
         => LET n == Len(ex'[e].requests)
            IN /\ ex'[e].requests[n] = IF n = 1 THEN Null ELSE EndCursor(n - 1)
               /\ n <= NumPages
               /\ {<<it.id, it.imageId>> : it \in SeqToSet(NewItems(e))}
                     = QualifyingOn(n, e)
               /\ Len(NewItems(e)) = Cardinality(QualifyingOn(n, e))
               /\ (ex'[e].pc = "total") <=> (n = NumPages)
               /\ ex'[e].hasNextPage <=> (n < NumPages)
      ]_vars

\* discovery has ended after both pages, with one qualifying product from
\* each page
C7_Witness ==
    \E e \in Execs :
        /\ ex[e].pc = "total"
        /\ ex[e].requests = <<Null, "c1">>
        /\ Len(ex[e].allItems) = 2
        /\ ex[e].allItems[1].id = "p1" /\ ex[e].allItems[2].id = "p2"

(* C8 *)

\* C8: when the product update of an item succeeds, the step has written one
\* log entry per generated field, each for this item and holding the value
\* now in the remote field, and none for a field it did not generate (that
\* field holds the fetched value or nothing); it has raised the Job record's
\* processedItems by 1 and the quota counter by 1.
C8_PerItemEffects ==
    [][\A e \in Execs :
         ProductWritten(e)
         => /\ NewFields # {}
            /\ Cardinality(logs' \ logs) = Cardinality(NewFields)
            /\ \A l \in logs' \ logs :
                  /\ l.productId = ItemOf(e).id
                  /\ l.field \in {"meta_title", "meta_description"}
                  /\ l.newValue = RemoteField(remote', l.target)
            /\ ("meta_title" \notin NewFields
                  => remote'.seo[ItemOf(e).id].title \in {ItemOf(e).seoTitle, Null})
            /\ ("meta_description" \notin NewFields
                  => remote'.seo[ItemOf(e).id].description
                        \in {ItemOf(e).seoDescription, Null})
            /\ jobs'[ex[e].dbJob].processedItems
                  = jobs[ex[e].dbJob].processedItems + 1
            /\ usage'[ex[e].data.shopDomain].productsOptimized
                  = usage[ex[e].data.shopDomain].productsOptimized + 1
      ]_vars

(* C9 *)

QuotaMessages == {QuotaMessage(FreeLimit), QuotaMessage(ProLimit)}

\* C9: a delivery that began with the tenant's usage at or above the plan
\* limit (and a valid session), and that met no failing store call, ends
\* with its Job record FAILED and the quota message as errorMessage, and has
\* sent no discovery request, generated nothing, mutated nothing and written
\* no log entry.
C9_QuotaStop ==
    [][\A e \in Execs :
         (/\ ex[e].state = "active" /\ ex'[e].state # "active"
          /\ ex[e].overAtStart /\ ~ex[e].faulted /\ ~ex'[e].faulted
          /\ session[ex[e].data.shopDomain])
         => /\ ex[e].pc = "catch"
            /\ ex[e].error \in QuotaMessages
            /\ jobs'[ex[e].dbJob].status = "FAILED"
            /\ jobs'[ex[e].dbJob].errorMessage = ex[e].error
            /\ ex[e].requests = <<>>
            /\ ex[e].generatedFor = {} /\ ex[e].mutated = {}
            /\ ~\E l \in logs' : l.id[1] = RunOf(e)
      ]_vars

(* C10 *)

\* C10: revertJob throws "No optimizations found to revert" exactly when the
\* job has no non-reverted entry of the tenant; otherwise it takes every such
\* entry in turn, goes on after a failure, a failed attempt leaves the log as
\* it is, and the summary has total = the number of those entries,
\* reverted + |errors| = total and success = (errors is empty).
C10_RevertJobSummary ==
    [][\A c \in Callers :
         /\ (CallStarts(c) /\ rv'[c].mode = "job")
            => LET eligible == EligibleEntries(rv'[c].jobId, rv'[c].shopDomain)
               IN IF eligible = {}
                  THEN /\ rv'[c].pc = "done"
                       /\ rv'[c].result = [success |-> FALSE, error |-> NoneToRevert]
                  ELSE /\ rv'[c].pc = "next"
                       /\ rv'[c].total = Cardinality(eligible)
                       /\ Len(rv'[c].todo) = Cardinality(eligible)
                       /\ SeqToSet(rv'[c].todo) = eligible
         /\ (rv[c].mode = "job" /\ rv[c].pc \in {"next", "fetch", "write", "mark"}
               /\ rv'[c] # rv[c])
            => /\ rv'[c].total = rv[c].total
               /\ rv'[c].reverted + Len(rv'[c].errors) + Len(rv'[c].todo)
                     + (IF rv'[c].pc \in {"fetch", "write", "mark"} THEN 1 ELSE 0)
                     = rv'[c].total
               /\ Len(rv'[c].errors) > Len(rv[c].errors) => logs' = logs
               /\ rv'[c].reverted > rv[c].reverted
                     => \E l \in logs' : l.id = rv[c].logId /\ l.isReverted
               /\ rv'[c].pc = "done"
                     => /\ rv'[c].todo = <<>>
                        /\ rv'[c].reverted + Len(rv'[c].errors) = rv'[c].total
                        /\ rv'[c].result =
                              [success |-> rv'[c].errors = <<>>,
                               reverted |-> rv'[c].reverted,
                               total |-> rv'[c].total,
                               errors |-> rv'[c].errors]
      ]_vars

\* revertJob over three entries of which the second failed: reverted = 2,
\* total = 3, one error, success = false, and the failed entry not reverted
C10_Witness ==
    \E c \in Callers :
        /\ rv[c].mode = "job" /\ rv[c].pc = "done"
        /\ rv[c].total = 3 /\ rv[c].reverted = 2 /\ Len(rv[c].errors) = 1
        /\ rv[c].result.success = FALSE
        /\ rv[c].errors[1].entry = <<1, 1, "meta_description">>
        /\ \E l \in logs : l.id = <<1, 1, "meta_description">> /\ ~l.isReverted

(* C11 *)

\* C11: with a failing store read canOptimize answers allowed, whatever the
\* plan and the usage; a processJob step through the quota check with a failing
\* read, or for a tenant whose plan has no limit, goes on to discovery.
C11_FailOpen ==
    [][/\ \A s \in Shops, read \in StoreReads \ {"ok"} :
             CanOptimizeReading(s, read).allowed
       /\ \A e \in Execs :
            (/\ ex[e].pc = "prepare" /\ ex'[e] # ex[e]
             /\ session[ex[e].data.shopDomain]
             /\ \/ budget'.faults < budget.faults
                \/ GetProductLimit(shops[ex[e].data.shopDomain].plan) = Unlimited)
            => ex'[e].pc = "fetch" /\ ex'[e].state = "active"
      ]_vars

\* a tenant on the FREE plan that began the period's run at its limit has had
\* an item mutated by a job whose quota check met a failing read
C11_Witness ==
    \E e \in Execs :
        /\ shops[TheShop].plan = "FREE" /\ applied[TheShop].base = FreeLimit
        /\ ex[e].overAtStart /\ ex[e].faulted /\ ex[e].mutated # {}

(* C12 *)

\* C12: the status of a Job record only moves PENDING -> PROCESSING,
\* PROCESSING -> COMPLETED and PROCESSING -> FAILED, so a COMPLETED or FAILED
\* record keeps its status.
C12_StatusMoves ==
    [][\A k \in 1..Len(jobs) :
         jobs'[k].status # jobs[k].status
         => <<jobs[k].status, jobs'[k].status>>
               \in { <<"PENDING", "PROCESSING">>, <<"PROCESSING", "COMPLETED">>,
                     <<"PROCESSING", "FAILED">> }
      ]_vars

(* C13 *)

\* C13: no step lowers the processedItems of a Job record.
C13_ProcessedMonotone ==
    [][\A k \in 1..Len(jobs) :
         jobs'[k].processedItems >= jobs[k].processedItems
      ]_vars

(* C14 *)

\* the Job records of a shop that are PENDING or PROCESSING
ActiveJobs(shop) ==
    {k \in 1..Len(jobs) : /\ jobs[k].shopDomain = shop
                          /\ jobs[k].status \in {"PENDING", "PROCESSING"}}

\* C14: a tenant never has more than one Job record in PENDING or PROCESSING.
C14_OneActiveJob ==
    \A s \in Shops : Cardinality(ActiveJobs(s)) <= 1

(* C15 *)

\* C15: of the revertOptimization calls on one log entry, at most one gets
\* to apply the compensating remote mutation.
C15_RevertOnce ==
    \A c1, c2 \in Callers :
        (/\ c1 # c2
         /\ rv[c1].logId = rv[c2].logId /\ rv[c1].logId # MissingId)
        => ~(rv[c1].wrote /\ rv[c2].wrote)

(* C16 *)

\* C16: a job enqueued with a productIds list sends no discovery request and
\* generates for, mutates and logs only products of the list.
C16_OnlySelected ==
    \A e \in Execs :
        ex[e].data.productIds # <<>>
        => /\ ex[e].requests = <<>>
           /\ ex[e].generatedFor \subseteq SeqToSet(ex[e].data.productIds)
           /\ ex[e].mutated \subseteq SeqToSet(ex[e].data.productIds)
           /\ \A l \in logs :
                 l.by = e => l.productId \in SeqToSet(ex[e].data.productIds)

(* C17 *)

\* C17: once a catalog call of a delivery has been answered with 401 or 403,
\* the delivery generates for, mutates and logs nothing more, and when it
\* ends its Job record is FAILED.
C17_AuthAborts ==
    [][\A e \in Execs :
         (ex[e].state = "active" /\ ex[e].authFailed /\ ex'[e] # ex[e])
         => IF ex'[e].state = "active"
            THEN /\ ex'[e].generatedFor = ex[e].generatedFor
                 /\ ex'[e].mutated = ex[e].mutated
                 /\ logs' = logs /\ remote' = remote
            ELSE jobs'[ex[e].dbJob].status = "FAILED"
      ]_vars

(* C18 *)

FatalErrors == QuotaMessages \cup {"Authentication failed"}

\* C18: a delivery that ends with a fatal error (quota used up at the start,
\* authentication failure) is the job's last: the queue does not deliver the
\* job again.
C18_FatalNotRetried ==
    [][\A e \in Execs :
         (/\ ex[e].state = "active" /\ ex[e].pc = "catch"
          /\ ex[e].error \in FatalErrors
          /\ ex'[e] # ex[e])
         => ex'[e].state = "failed"
      ]_vars

(* C19 *)

\* C19: a step of the item loop, whatever the generators answer and whatever
\* the mutation request does, moves on to the next item without touching the
\* record's status, and changes the catalog and the usage only when the item
\* counts as processed; after the last item, when the store takes the update,
\* the delivery ends with its Job record COMPLETED.
C19_ItemFailuresSkipped ==
    [][\A e \in Execs :
         (ex[e].state = "active" /\ ex[e].pc = "loop" /\ ex'[e] # ex[e])
         => IF ex[e].i < Len(ex[e].items)
            THEN /\ ex'[e].state = "active" /\ ex'[e].pc = "loop"
                 /\ ex'[e].i = ex[e].i + 1
                 /\ jobs'[ex[e].dbJob].status = jobs[ex[e].dbJob].status
                 /\ ex'[e].processedCount = ex[e].processedCount
                       => remote' = remote /\ usage' = usage
            ELSE budget'.faults = budget.faults
                 => /\ ex'[e].state = "completed"
                    /\ jobs'[ex[e].dbJob].status = "COMPLETED"
      ]_vars

\* a delivery over two items has ended COMPLETED after its first item failed
\* and its second was mutated
C19_Witness ==
    \E e \in Execs :
        /\ ex[e].state = "completed" /\ Len(ex[e].items) = 2
        /\ ex[e].processedCount = 1
        /\ ex[e].mutated = {ex[e].items[2].id}
        /\ jobs[ex[e].dbJob].status = "COMPLETED"
        /\ jobs[ex[e].dbJob].processedItems = 1

(* C20 *)

\* C20: when every delivery of every job has ended, no Job record is left
\* in PROCESSING.
C20_NoneLeftProcessing ==
    (\A e \in Execs : ex[e].state \notin {"waiting", "active"})
    => \A k \in 1..Len(jobs) : jobs[k].status # "PROCESSING"

----------------------------------------------------------------------------
(* The retry wrapper *)

\* the answers the wrapper has consumed so far
Consumed == 1..req.calls
FailedCalls == {k \in Consumed : ~ShopifyGraphQL(req.script[k]).ok}
CountedFailures == {k \in FailedCalls : req.script[k].status # 429}
RetryEnded == req.pc \in {"returned", "thrown"}

\* C23: a 429 answer does not consume the retry budget: a request only gives
\* up (other than on a 401/403) after three failures that are not rate
\* limits, so any number of 429 answers followed by a success returns that
\* success.
C23_RateLimitNotCounted ==
    (req.pc = "thrown" /\ ~IsAuthError(req.lastError.status))
        => Cardinality(CountedFailures) = MaxRetries

\* C24: a 401 or 403 answer on any attempt is rethrown at once: the step that
\* meets it ends the request with that error and adds no sleep, and an ended
\* request makes no further call.
C24_AuthRethrown ==
    [][/\ (req.pc = "loop" /\ req.attempt < MaxRetries
            /\ req.script[req.calls + 1].status \in {401, 403})
          => /\ req'.pc = "thrown"
             /\ req'.lastError.status = req.script[req.calls + 1].status
             /\ req'.lastError.message = "Authentication failed"
             /\ req'.sleeps = req.sleeps
             /\ req'.calls = req.calls + 1
       /\ RetryEnded => (req'.calls = req.calls /\ req'.sleeps = req.sleeps)]_vars

C24_Witness ==
    /\ req.pc = "thrown"
    /\ IsAuthError(req.lastError.status)
    /\ req.calls = 2
    /\ Len(req.sleeps) = 1

\* every answer consumed so far is a success or a failure other than
\* 401/403/429
OnlyOtherFailures == \A k \in Consumed : req.script[k].status \notin {401, 403, 429}

\* C25: for failures other than 401/403/429 the wrapper makes at most 3 calls,
\* returns the first success, sleeps 1000 ms after the first failure and
\* 2000 ms after the second, does not sleep after the third, and then throws
\* the last error.
C25_Backoff ==
    OnlyOtherFailures =>
        /\ req.calls <= MaxRetries
        /\ req.sleeps = First(Min(Cardinality(FailedCalls), MaxRetries - 1),
                              <<1000, 2000>>)
        /\ req.pc = "returned"
             => /\ ShopifyGraphQL(req.script[req.calls]).ok
                /\ FailedCalls = 1..(req.calls - 1)
        /\ req.pc = "loop" => FailedCalls = Consumed
        /\ req.pc = "thrown"
             => /\ req.calls = MaxRetries
                /\ FailedCalls = Consumed
                /\ req.lastError = ShopifyGraphQL(req.script[MaxRetries]).error

C25_Witness ==
    /\ OnlyOtherFailures
    /\ req.pc = "thrown"
    /\ req.calls = MaxRetries
    /\ req.sleeps = <<1000, 2000>>

----------------------------------------------------------------------------
(* The optimization log *)

\* the fields of a log row that are fixed at its creation
Created(l) ==
    [id |-> l.id, jobId |-> l.jobId, shopDomain |-> l.shopDomain,
     productId |-> l.productId, field |-> l.field,
     oldValue |-> l.oldValue, newValue |-> l.newValue]

\* C21: the log is append-only: no step of the system deletes a row or changes
\* its id, jobId, tenant, item id, field, oldValue or newValue, and the only
\* change of a row is the single transition from not reverted to reverted,
\* which sets revertedAt.
C21_AppendOnly ==
    [][\A l \in logs :
         \E m \in logs' :
            /\ m.id = l.id
            /\ Created(m) = Created(l)
            /\ \/ m.isReverted = l.isReverted /\ m.revertedAt = l.revertedAt
               \/ ~l.isReverted /\ m.isReverted /\ m.revertedAt # Null]_vars

----------------------------------------------------------------------------
(* The job-status query *)

\* C22: the job-status query for a jobId returns the state, processedItems and
\* totalItems of the job with that jobId (the queue job and the Job record its
\* processJob execution runs), whatever other jobs the tenant has.
C22_StatusOfJob ==
    \A e \in Execs :
        (ex[e].state \in {"active", "completed", "failed"} /\ ex[e].dbJob \in 1..Len(jobs))
            => LET status == JobStatus(e, ex[e].data.shopDomain)
                   record == jobs[ex[e].dbJob]
               IN /\ status.found
                  /\ status.state = ex[e].state
                  /\ status.processedItems = record.processedItems
                  /\ status.totalItems = record.totalItems

----------------------------------------------------------------------------
(* Log entries and the mutations they record *)

\* C26: a log entry is written only after the remote mutation of its item has
\* succeeded: the step that writes an entry has applied the entry's newValue
\* to the remote field, and only a step whose mutation succeeded writes an
\* entry or charges quota.
C26_LogAfterSuccess ==
    [][/\ \A l \in logs' : l.id \notin LogIds
            => RemoteField(remote', l.target) = l.newValue
       /\ ({l.id : l \in logs'} \ LogIds # {} \/ usage' # usage)
            => \E e \in Execs : /\ ex[e].state = "active"
                                /\ ex'[e].mutated # ex[e].mutated]_vars

----------------------------------------------------------------------------
(* Executions and Job records *)

\* C27: no two processJob executions operate on the same Job record at the
\* same time.
C27_OneWorkerPerRecord ==
    \A e1, e2 \in Execs :
        (/\ e1 # e2
         /\ ex[e1].state = "active" /\ ex[e1].pc \notin {"create", "adopt"}
         /\ ex[e2].state = "active" /\ ex[e2].pc \notin {"create", "adopt"})
            => ex[e1].dbJob # ex[e2].dbJob

----------------------------------------------------------------------------
(* Failing reverts *)

\* the errors revertOptimization throws once the entry was found
RevertErrors ==
    {"No valid session found", "Product not found", "Failed to revert",
     "Shopify API error"}

\* caller c's revertOptimization ends in this step by throwing
RevertThrows(c) ==
    IF rv'[c].mode = "single"
    THEN /\ rv'[c].pc = "done" /\ rv[c] # rv'[c]
         /\ rv'[c].result.success = FALSE
    ELSE Len(rv'[c].errors) > Len(rv[c].errors)

----------------------------------------------------------------------------
(* The compensating write *)

\* caller c's compensating productUpdate is applied in this step
RevertWritten(c) == rv[c].pc = "write" /\ rv'[c].pc = "mark"

\* the sibling of the field an entry is about
Sibling(field) == IF field = "meta_title" THEN "description" ELSE "title"
Own(field) == IF field = "meta_title" THEN "title" ELSE "description"

\* C29: the compensating write sets the reverted field to the entry's oldValue
\* and the sibling to the value read from the remote item within the same
\* call, so the write leaves the remote sibling unchanged.
C29_SiblingUnchanged ==
    [][\A c \in Callers :
         RevertWritten(c) =>
            LET log == rv[c].log
                p == log.productId
            IN /\ rv[c].input[Own(log.field)] = OrEmpty(log.oldValue)
               /\ ~Falsy(rv[c].current[Sibling(log.field)])
                    => rv[c].input[Sibling(log.field)]
                         = rv[c].current[Sibling(log.field)]
               /\ remote'.seo[p][Own(log.field)] = StoredValue(log.oldValue)
               /\ remote'.seo[p][Sibling(log.field)]
                    = remote.seo[p][Sibling(log.field)]]_vars

----------------------------------------------------------------------------
(* A failing processJob *)

\* execution e's processJob ends in this step with an exception
JobThrows(e) == ex[e].state = "active" /\ ex[e].pc = "catch" /\ ex'[e].pc # "catch"

\* C30: when processJob ends with an exception, the Job record it was running
\* is FAILED with the exception's message, and the log entries and usage
\* counters written before are still there.
C30_FailedWithMessage ==
    [][\A e \in Execs :
         JobThrows(e) =>
            /\ jobs'[ex[e].dbJob].status = "FAILED"
            /\ jobs'[ex[e].dbJob].errorMessage = ex[e].error
            /\ logs \subseteq logs'
            /\ usage' = usage]_vars

----------------------------------------------------------------------------
(* Progress *)

\* execution e finishes an item of its loop in this step
ItemDone(e) == ex[e].state = "active" /\ ex[e].pc = "loop" /\ ex'[e].i = ex[e].i + 1

\* C31: after every item the progress reported to the queue is processedItems
\* / totalItems of the job's record (as a percentage), and totalItems does not
\* change while the loop runs.
C31_ProgressIsProcessed ==
    [][\A e \in Execs :
         /\ ItemDone(e)
              => /\ jobs'[ex[e].dbJob].totalItems > 0
                 /\ ex'[e].progress = Percent(jobs'[ex[e].dbJob].processedItems,
                                              jobs'[ex[e].dbJob].totalItems)
         /\ (ex[e].state = "active" /\ ex[e].pc = "loop")
              => jobs'[ex[e].dbJob].totalItems = jobs[ex[e].dbJob].totalItems]_vars

----------------------------------------------------------------------------
(* The content generators *)

\* the generators called for the image, as a set
Called == {gen.calls[k] : k \in 1..Len(gen.calls)}

ImageDone == gen.pc = "done" /\ gen.kind = "vision"

\* C32 (as amended): for each image the fallback generator is called iff the
\* vision generator answered null or the empty string (a failure inside it
\* is an answer of null); when it answers a non-empty value, that value is
\* the alt text applied and the fallback is not called; when the fallback is
\* called, its answer is the alt text
C32_FallbackIffNothing ==
    ImageDone =>
        /\ "fallback" \in Called <=> (gen.primary = NullOut \/ gen.primary = <<>>)
        /\ gen.primary = Generate("vision", gen.raw)
        /\ "fallback" \notin Called => gen.output = gen.primary /\ gen.calls = <<"vision">>
        /\ "fallback" \in Called =>
              /\ gen.output = Generate("fallback", gen.fallbackRaw)
              /\ gen.calls = <<"vision", "fallback">>

\* the vision generator answered the empty string and the fallback was called
C32_Witness ==
    /\ ImageDone
    /\ gen.primary = <<>>
    /\ gen.calls = <<"vision", "fallback">>
    /\ gen.output # NullOut

\* C32 as stated: the fallback is called iff the vision generator answered
\* null (or threw); any value it returns is applied without the fallback
C32_FallbackIffNull ==
    ImageDone => ("fallback" \in Called <=> gen.primary = NullOut)

\* the generator whose answer is the output of a finished generation, and
\* the raw text it was given
LastKind == gen.calls[Len(gen.calls)]
LastRaw == IF LastKind = "fallback" THEN gen.fallbackRaw ELSE gen.raw

\* the cut the normalization rule describes: at the last space before the
\* limit when that space is beyond the threshold, hard otherwise, with the
\* ellipsis marker appended
CutAtLastSpace(kind, text) ==
    LET truncated == Slice(text, Limits(kind).cut)
        lastSpace == LastIndexOfSpace(truncated)
    IN (IF lastSpace > Limits(kind).threshold
        THEN Slice(truncated, lastSpace) ELSE truncated) \o Ellipsis

\* C33: for every generator (title, description, alt text vision, alt text
\* fallback) a raw output shorter than the field's minimum yields null, and a
\* raw output longer than the field's maximum is returned cut at the last
\* space before the limit (hard cut when that space is not beyond the
\* threshold) with "..." appended, the result never exceeding the maximum
C33_LengthNormalized ==
    (gen.pc = "done" /\ LastRaw # ApiFailure) =>
        LET text == Cleaned(LastKind, LastRaw)
        IN /\ Len(text) < Limits(LastKind).min => gen.output = NullOut
           /\ Len(text) > Limits(LastKind).max =>
                 /\ gen.output = CutAtLastSpace(LastKind, text)
                 /\ Len(gen.output) <= Limits(LastKind).max

----------------------------------------------------------------------------
(* Tenants *)

\* the Job records, log entries and usage record of a shop
JobsOf(js, shop) == {<<k, js[k]>> : k \in {m \in 1..Len(js) : js[m].shopDomain = shop}}
LogsOf(lg, shop) == {l \in lg : l.shopDomain = shop}

\* the shop of the operation that takes the step: the job run of an
\* execution, or the call of a caller
ActingFor(shop) ==
    \/ \E e \in Execs : ex'[e] # ex[e] /\ ex'[e].data.shopDomain = shop
    \/ \E c \in Callers : rv'[c] # rv[c] /\ rv'[c].shopDomain = shop

\* C34: an operation invoked for one tenant never reads for decision,
\* modifies or returns a Job, OptimizationLog or usage record of another
\* tenant: the records of a shop change only in a step of its own operation,
\* a job run works under a Job record of its own shop and logs under its own
\* shop, a call works on and returns entries of its own shop only, and
\* revertOptimization for an entry of another tenant fails as not found
\* without a remote call
C34_TenantIsolation ==
    [][/\ \A shop \in Shops :
            ~ActingFor(shop)
              => /\ JobsOf(jobs', shop) = JobsOf(jobs, shop)
                 /\ LogsOf(logs', shop) = LogsOf(logs, shop)
                 /\ usage'[shop] = usage[shop]
       /\ \A e \in Execs :
            (ex'[e].state = "active" /\ ex'[e].dbJob # 0)
              => jobs'[ex'[e].dbJob].shopDomain = ex'[e].data.shopDomain
       /\ \A shop \in Shops, jobId \in 0..Len(jobs'), showReverted \in BOOLEAN :
            \A l \in GetOptimizationHistory(shop, jobId, showReverted)' :
                l.shopDomain = shop
       /\ \A c \in Callers :
            /\ rv'[c].log # NoEntry => rv'[c].log.shopDomain = rv'[c].shopDomain
            /\ \A k \in 1..Len(rv'[c].todo) :
                 EntryOf(rv'[c].todo[k]).shopDomain = rv'[c].shopDomain
            /\ \A id \in rv'[c].marked : EntryOf(id).shopDomain = rv'[c].shopDomain
            /\ (/\ rv'[c] # rv[c]
                /\ rv'[c].mode = "single"
                /\ \E l \in logs : l.id = rv'[c].logId /\ l.shopDomain # rv'[c].shopDomain)
                 => /\ rv'[c].pc = "done"
                    /\ rv'[c].result
                         = [success |-> FALSE,
                            error |-> "Optimization log not found or already reverted"]
                    /\ ~rv'[c].wrote
                    /\ remote' = remote]_vars

\* a call of revertOptimization by one shop for an entry of the other has
\* ended, and a job of the shop has failed beside the other shop's
\* PROCESSING record
C34_Witness ==
    /\ \E c \in Callers :
         /\ rv[c].pc = "done" /\ rv[c].mode = "single"
         /\ \E l \in logs : l.id = rv[c].logId /\ l.shopDomain # rv[c].shopDomain
    /\ \E k \in 1..Len(jobs) : jobs[k].shopDomain = TheShop /\ jobs[k].status = "FAILED"
    /\ \E k \in 1..Len(jobs) : jobs[k].shopDomain = OtherShop

----------------------------------------------------------------------------
(* The frame of a failure *)

\* the catch block of execution e runs in this step
Fails(e) == ex[e].state = "active" /\ ex[e].pc = "catch" /\ ex'[e] # ex[e]

\* C35: when a processJob execution fails, the only Job record whose status
\* or errorMessage changes is the record the execution was running; any
\* other Job record of the tenant that is PROCESSING is left unchanged
C35_FailureFrame ==
    [][\A e \in Execs :
         Fails(e) =>
           \A k \in 1..Len(jobs) :
              k # ex[e].dbJob
                => /\ jobs'[k].status = jobs[k].status
                   /\ jobs'[k].errorMessage = jobs[k].errorMessage]_vars

----------------------------------------------------------------------------
(* The plan limit *)

\* C36: for a tenant with a non-null plan limit the period's
\* productsOptimized counter never exceeds the limit: a job that starts below
\* the limit stops mutating and charging items once the limit is reached
C36_WithinLimit ==
    \A shop \in Shops :
        GetProductLimit(shops[shop].plan) # Unlimited
          => usage[shop].productsOptimized <= GetProductLimit(shops[shop].plan)

----------------------------------------------------------------------------
(* The counts of a Job record *)

\* C37: every Job record satisfies 0 <= processedItems <= totalItems,
\* including right after totalItems is rewritten when a PROCESSING record
\* that was started before is resumed
C37_ProcessedWithinTotal ==
    \A k \in 1..Len(jobs) :
        /\ 0 <= jobs[k].processedItems
        /\ jobs[k].processedItems <= jobs[k].totalItems

----------------------------------------------------------------------------
(* A job's write and the other writers of the product *)

\* C38: a job's write never changes the remote value of a field the job did
\* not generate, even when another writer changed that sibling field after
\* the job's discovery fetch and before the job's write for the item
C38_SiblingNotChanged ==
    [][\A e \in Execs :
         ProductWritten(e)
           => /\ "meta_title" \notin NewFields
                   => remote'.seo[ItemOf(e).id].title = remote.seo[ItemOf(e).id].title
              /\ "meta_description" \notin NewFields
                   => remote'.seo[ItemOf(e).id].description
                        = remote.seo[ItemOf(e).id].description]_vars

----------------------------------------------------------------------------
(* The type of a Job record *)

\* the fields a job of the type writes log entries for
FieldsOfType(jobType) ==
    IF jobType = "ALT_TEXT" THEN {"alt_text"}
    ELSE {"meta_title", "meta_description"}

\* C39: every Job record's type is the job type of the work executed and
\* logged under it: all log entries written with the record's id as jobId
\* carry fields of the record's type, also when processJob has adopted the
\* record
C39_TypeOfRecord ==
    \A l \in logs :
        l.jobId \in 1..Len(jobs) => l.field \in FieldsOfType(jobs[l.jobId].type)

=============================================================================
